---- MODULE Spec2Model ----
(***************************************************************************)
(* Model of the NCAA men's soccer roster scraper                           *)
(* (src/src/soccer_roster_scraper.py): the field extractors, the template  *)
(* dispatcher and extractors of StandardScraper, the validation and retry  *)
(* of JSScraper, and the batch loop of RosterManager.                      *)
(*                                                                         *)
(* Text is modelled by TLA+ strings; a position in a string is the number  *)
(* of characters before it (0 .. Len(s)).  An element that a page may or   *)
(* may not contain is a sequence: << >> when absent, <<text>> when present.*)
(***************************************************************************)
EXTENDS Integers, Sequences, FiniteSets, TLC

\* ------------------------------------------------------------------------
\* Bounds of the model
\* ------------------------------------------------------------------------

\* Largest number of entries (list items, rows, cards) of a generated page.
MaxEntries == 2

\* Largest number of teams handed to RosterManager.scrape_teams.
MaxTeams == 2

\* Largest number of players in a list handed to _validate_players.
MaxPlayers == 10

\* ------------------------------------------------------------------------
\* Python string primitives
\* ------------------------------------------------------------------------

\* s[i] for a 1-based index i
Ch(s, i) == SubSeq(s, i, i)

\* characters that str.strip() and the regex class \s treat as whitespace
WS == {" ", "\t", "\n", "\r", "\f"}

Digits == {"0", "1", "2", "3", "4", "5", "6", "7", "8", "9"}

UpperLetters ==
    {"A", "B", "C", "D", "E", "F", "G", "H", "I", "J", "K", "L", "M",
     "N", "O", "P", "Q", "R", "S", "T", "U", "V", "W", "X", "Y", "Z"}

LowerLetters ==
    {"a", "b", "c", "d", "e", "f", "g", "h", "i", "j", "k", "l", "m",
     "n", "o", "p", "q", "r", "s", "t", "u", "v", "w", "x", "y", "z"}

\* the regex class \w
WordChars == UpperLetters \cup LowerLetters \cup Digits \cup {"_"}

UpperSeq == "ABCDEFGHIJKLMNOPQRSTUVWXYZ"

LowerSeq == "abcdefghijklmnopqrstuvwxyz"

\* c.lower() / c.upper() for one character
LowerCh(c) ==
    IF c \in UpperLetters
    THEN Ch(LowerSeq, CHOOSE k \in 1..26 : Ch(UpperSeq, k) = c)
    ELSE c

UpperCh(c) ==
    IF c \in LowerLetters
    THEN Ch(UpperSeq, CHOOSE k \in 1..26 : Ch(LowerSeq, k) = c)
    ELSE c

RECURSIVE Lower(_)
\* str.lower(), half by half
Lower(s) ==
    IF Len(s) <= 1 THEN LowerCh(s)
    ELSE Lower(SubSeq(s, 1, Len(s) \div 2)) \o Lower(SubSeq(s, Len(s) \div 2 + 1, Len(s)))

RECURSIVE Upper(_)
\* str.upper(), half by half
Upper(s) ==
    IF Len(s) <= 1 THEN UpperCh(s)
    ELSE Upper(SubSeq(s, 1, Len(s) \div 2)) \o Upper(SubSeq(s, Len(s) \div 2 + 1, Len(s)))

RECURSIVE LStrip(_)
LStrip(s) == IF s # "" /\ Head(s) \in WS THEN LStrip(Tail(s)) ELSE s

RECURSIVE RStrip(_)
RStrip(s) ==
    IF s # "" /\ Ch(s, Len(s)) \in WS THEN RStrip(SubSeq(s, 1, Len(s) - 1)) ELSE s

\* str.strip()
Strip(s) == LStrip(RStrip(s))

\* s.startswith(p)
StartsWith(s, p) == Len(p) <= Len(s) /\ SubSeq(s, 1, Len(p)) = p

\* s.endswith(p)
EndsWith(s, p) == Len(p) <= Len(s) /\ SubSeq(s, Len(s) - Len(p) + 1, Len(s)) = p

\* the positions (0-based) at which p occurs in s
Occurrences(s, p) ==
    {i \in 0..(Len(s) - Len(p)) : SubSeq(s, i + 1, i + Len(p)) = p}

\* p in s
Contains(s, p) == Occurrences(s, p) # {}

Min(S) == CHOOSE x \in S : \A y \in S : x <= y

RECURSIVE RStripCh(_, _)
\* s.rstrip(c) for a single character c
RStripCh(s, c) ==
    IF s # "" /\ Ch(s, Len(s)) = c THEN RStripCh(SubSeq(s, 1, Len(s) - 1), c) ELSE s

RECURSIVE Replace(_, _, _)
\* s.replace(old, new), old non-empty
Replace(s, old, new) ==
    IF ~Contains(s, old) THEN s
    ELSE LET i == Min(Occurrences(s, old))
         IN  SubSeq(s, 1, i) \o new \o Replace(SubSeq(s, i + Len(old) + 1, Len(s)), old, new)

RECURSIVE Split(_, _)
\* s.split(sep), sep non-empty: the sequence of the parts
Split(s, sep) ==
    IF ~Contains(s, sep) THEN <<s>>
    ELSE LET i == Min(Occurrences(s, sep))
         IN  <<SubSeq(s, 1, i)>> \o Split(SubSeq(s, i + Len(sep) + 1, Len(s)), sep)

\* s.split(sep, 1)
Split1(s, sep) ==
    IF ~Contains(s, sep) THEN <<s>>
    ELSE LET i == Min(Occurrences(s, sep))
         IN  <<SubSeq(s, 1, i), SubSeq(s, i + Len(sep) + 1, Len(s))>>

\* s consists of decimal digits only: int(s) succeeds
IsInt(s) == s # "" /\ \A i \in 1..Len(s) : Ch(s, i) \in Digits

DigitSeq == "0123456789"

DigitVal(c) == (CHOOSE k \in 1..10 : Ch(DigitSeq, k) = c) - 1

RECURSIVE ParseInt(_)
\* int(s) for a string of digits
ParseInt(s) ==
    IF s = "" THEN 0
    ELSE 10 * ParseInt(SubSeq(s, 1, Len(s) - 1)) + DigitVal(Ch(s, Len(s)))

RECURSIVE IntToStr(_)
\* str(n) for n >= 0
IntToStr(n) ==
    IF n < 10 THEN Ch(DigitSeq, n + 1)
    ELSE IntToStr(n \div 10) \o Ch(DigitSeq, (n % 10) + 1)

\* s[-k:]
LastChars(s, k) == IF Len(s) <= k THEN s ELSE SubSeq(s, Len(s) - k + 1, Len(s))

\* ------------------------------------------------------------------------
\* Regular expressions (module re), as far as the scraper's patterns use them
\* ------------------------------------------------------------------------
\* A pattern is a record with a tag t.  ReMatch gives every way the pattern
\* matches at a position, in the order in which re's backtracking tries them,
\* so the first element is the match re reports.  A match is a record: e the
\* position after it, gs/ge the span of group 1 (-1 when not set).

ReLit(x) == [t |-> "lit", s |-> x]

ReSet(cs) == [t |-> "set", cs |-> cs]

ReNotSet(cs) == [t |-> "nset", cs |-> cs]

ReAny == [t |-> "any"]

ReWordB == [t |-> "wb"]

ReBol == [t |-> "bol"]

ReEol == [t |-> "eol"]

ReCatOf(rs) == [t |-> "cat", rs |-> rs]

ReAltOf(rs) == [t |-> "alt", rs |-> rs]

\* greedy repetition; max = -1 is unbounded
ReRepOf(r, min, max) == [t |-> "rep", r |-> r, min |-> min, max |-> max]

ReGroup(r) == [t |-> "grp", r |-> r]

ReLookahead(r) == [t |-> "look", r |-> r]

ReOpt(r) == ReRepOf(r, 0, 1)

ReStar(r) == ReRepOf(r, 0, -1)

RePlus(r) == ReRepOf(r, 1, -1)

ReAt(i) == [e |-> i, gs |-> -1, ge |-> -1]

\* \b at position i of s
WordBoundary(s, i) ==
    LET before == i >= 1 /\ Ch(s, i) \in WordChars
        after  == i < Len(s) /\ Ch(s, i + 1) \in WordChars
    IN  before # after

\* equality of two strings of the same length, under re.IGNORECASE when ic
SameText(a, b, ic) ==
    IF ic THEN \A k \in 1..Len(a) : LowerCh(Ch(a, k)) = LowerCh(Ch(b, k)) ELSE a = b

InClass(c, cs, ic) ==
    IF ic THEN \E x \in cs : LowerCh(x) = LowerCh(c) ELSE c \in cs

RECURSIVE ReMatch(_, _, _, _)
RECURSIVE ReCat(_, _, _, _, _)
RECURSIVE ReCatThen(_, _, _, _, _, _)
RECURSIVE ReAlt(_, _, _, _, _)
RECURSIVE ReRep(_, _, _, _, _, _, _)
RECURSIVE ReRepThen(_, _, _, _, _, _, _, _, _)

ReMatch(r, s, i, ic) ==
    CASE r.t = "lit" ->
            IF i + Len(r.s) <= Len(s)
               /\ SameText(SubSeq(s, i + 1, i + Len(r.s)), r.s, ic)
            THEN <<ReAt(i + Len(r.s))>> ELSE <<>>
      [] r.t = "set" ->
            IF i < Len(s) /\ InClass(Ch(s, i + 1), r.cs, ic)
            THEN <<ReAt(i + 1)>> ELSE <<>>
      [] r.t = "nset" ->
            IF i < Len(s) /\ ~InClass(Ch(s, i + 1), r.cs, ic)
            THEN <<ReAt(i + 1)>> ELSE <<>>
      [] r.t = "any" ->
            IF i < Len(s) /\ Ch(s, i + 1) # "\n" THEN <<ReAt(i + 1)>> ELSE <<>>
      [] r.t = "wb" -> IF WordBoundary(s, i) THEN <<ReAt(i)>> ELSE <<>>
      [] r.t = "bol" -> IF i = 0 THEN <<ReAt(i)>> ELSE <<>>
      [] r.t = "eol" ->
            IF i = Len(s) \/ (i = Len(s) - 1 /\ Ch(s, Len(s)) = "\n")
            THEN <<ReAt(i)>> ELSE <<>>
      [] r.t = "look" ->
            IF ReMatch(r.r, s, i, ic) # <<>> THEN <<ReAt(i)>> ELSE <<>>
      [] r.t = "grp" ->
            LET ms == ReMatch(r.r, s, i, ic)
            IN  [n \in 1..Len(ms) |-> [e |-> ms[n].e, gs |-> i, ge |-> ms[n].e]]
      [] r.t = "cat" -> ReCat(r.rs, 1, s, i, ic)
      [] r.t = "alt" -> ReAlt(r.rs, 1, s, i, ic)
      [] r.t = "rep" -> ReRep(r.r, r.min, r.max, 0, s, i, ic)

\* rs[k], rs[k+1], ... one after the other from position i
ReCat(rs, k, s, i, ic) ==
    IF k > Len(rs) THEN <<ReAt(i)>>
    ELSE ReCatThen(ReMatch(rs[k], s, i, ic), 1, rs, k, s, ic)

ReCatThen(ms, j, rs, k, s, ic) ==
    IF j > Len(ms) THEN <<>>
    ELSE LET rest == ReCat(rs, k + 1, s, ms[j].e, ic)
             here == [n \in 1..Len(rest) |->
                        IF rest[n].gs >= 0 THEN rest[n]
                        ELSE [e |-> rest[n].e, gs |-> ms[j].gs, ge |-> ms[j].ge]]
         IN  here \o ReCatThen(ms, j + 1, rs, k, s, ic)

\* the alternatives rs[k], rs[k+1], ... in their order
ReAlt(rs, k, s, i, ic) ==
    IF k > Len(rs) THEN <<>>
    ELSE ReMatch(rs[k], s, i, ic) \o ReAlt(rs, k + 1, s, i, ic)

\* c iterations of r are done; greedy: one more iteration is tried first
ReRep(r, min, max, c, s, i, ic) ==
    LET more == IF max < 0 \/ c < max
                THEN ReRepThen(ReMatch(r, s, i, ic), 1, r, min, max, c, s, ic, i)
                ELSE <<>>
        stop == IF c >= min THEN <<ReAt(i)>> ELSE <<>>
    IN  more \o stop

ReRepThen(ms, j, r, min, max, c, s, ic, i) ==
    IF j > Len(ms) THEN <<>>
    ELSE (IF ms[j].e > i THEN ReRep(r, min, max, c + 1, s, ms[j].e, ic) ELSE <<>>)
         \o ReRepThen(ms, j + 1, r, min, max, c, s, ic, i)

NoMatch == [found |-> FALSE, start |-> -1, e |-> -1, gs |-> -1, ge |-> -1]

\* mss[i + 1]: the matches at position i; the leftmost position with one wins
ReSearchIn(mss) ==
    IF \A k \in 1..Len(mss) : mss[k] = <<>> THEN NoMatch
    ELSE LET k == Min({j \in 1..Len(mss) : mss[j] # <<>>})
         IN  [found |-> TRUE, start |-> k - 1, e |-> mss[k][1].e,
              gs |-> mss[k][1].gs, ge |-> mss[k][1].ge]

\* re.search(r, s): the leftmost match
ReSearch(r, s, ic) == ReSearchIn([k \in 1..(Len(s) + 1) |-> ReMatch(r, s, k - 1, ic)])

\* match.group(1)
Group1(s, m) == SubSeq(s, m.gs + 1, m.ge)

\* the end of the match re reports at position i, -1 without a non-empty one
MatchEnd(ms, i) == IF ms # <<>> /\ ms[1].e > i THEN ms[1].e ELSE -1

RECURSIVE ReSubFrom(_, _, _, _)
\* ends[i + 1]: MatchEnd at position i; the text up to the leftmost match from
\* i on is kept, the match is replaced, and the scan goes on behind it
ReSubFrom(ends, repl, s, i) ==
    IF \A k \in (i + 1)..Len(s) : ends[k] < 0 THEN SubSeq(s, i + 1, Len(s))
    ELSE LET k == Min({j \in (i + 1)..Len(s) : ends[j] >= 0})
         IN  SubSeq(s, i + 1, k - 1) \o repl \o ReSubFrom(ends, repl, s, ends[k])

\* re.sub(r, repl, s) for a pattern that matches no empty string
ReSub(r, repl, s, ic) ==
    ReSubFrom([k \in 1..Len(s) |-> MatchEnd(ReMatch(r, s, k - 1, ic), k - 1)], repl, s, 0)

\* ------------------------------------------------------------------------
\* FieldExtractors
\* ------------------------------------------------------------------------

\* r'\s+'
WhitespaceRun == RePlus(ReSet(WS))

\* r'\s*(Full Bio|Instagram|Twitter|Opens in a new window).*$'
NoisePattern ==
    ReCatOf(<<ReStar(ReSet(WS)),
              ReAltOf(<<ReLit("Full Bio"), ReLit("Instagram"), ReLit("Twitter"),
                        ReLit("Opens in a new window")>>),
              ReStar(ReAny), ReEol>>)

\* r'\b<label>:\s*'
WordLabel(label) == ReCatOf(<<ReWordB, ReLit(label), ReLit(":"), ReStar(ReSet(WS))>>)

\* r'\b<label>\.?:\s*'
WordLabelDot(label) ==
    ReCatOf(<<ReWordB, ReLit(label), ReOpt(ReLit(".")), ReLit(":"), ReStar(ReSet(WS))>>)

\* r'^<label>:\s*'
StartLabel(label) == ReCatOf(<<ReBol, ReLit(label), ReLit(":"), ReStar(ReSet(WS))>>)

\* r'^<label>\.?:\s*'
StartLabelDot(label) ==
    ReCatOf(<<ReBol, ReLit(label), ReOpt(ReLit(".")), ReLit(":"), ReStar(ReSet(WS))>>)

\* the list patterns of clean_field_labels, in its order
LabelPatterns ==
    <<WordLabel("Class"), WordLabel("Hometown"), WordLabel("High school"),
      WordLabel("Previous College"), WordLabel("Previous School"),
      WordLabelDot("Ht"), WordLabelDot("Pos"), WordLabel("Major"),
      StartLabel("High school"), StartLabel("Hometown"), StartLabelDot("No")>>

RECURSIVE StripLabels(_, _)
\* the loop of clean_field_labels from pattern k on
StripLabels(text, k) ==
    IF k > Len(LabelPatterns) THEN text
    ELSE StripLabels(Strip(ReSub(LabelPatterns[k], "", text, TRUE)), k + 1)

clean_field_labels(text) == IF text = "" THEN text ELSE StripLabels(text, 1)

clean_text(text) ==
    IF text = "" THEN ""
    ELSE clean_field_labels(
             ReSub(NoisePattern, "", ReSub(WhitespaceRun, " ", Strip(text), FALSE), FALSE))

\* r'\b(GK|D|M|F|MF|DF|FW|DEF|MID|FOR)\b'
PositionPattern ==
    ReCatOf(<<ReWordB,
              ReGroup(ReAltOf(<<ReLit("GK"), ReLit("D"), ReLit("M"), ReLit("F"),
                                ReLit("MF"), ReLit("DF"), ReLit("FW"), ReLit("DEF"),
                                ReLit("MID"), ReLit("FOR")>>)),
              ReWordB>>)

\* extract_position without the normalization of the variations
PosMapUnmapped(pos) == pos

\* pos_map.get(pos, pos)
pos_map(pos) ==
    IF pos \in {"DEF", "DF"} THEN "D"
    ELSE IF pos \in {"MID", "MF"} THEN "M"
    ELSE IF pos \in {"FOR", "FW"} THEN "F"
    ELSE pos

\* the fallback of extract_position on the full position names
PositionKeyword(text_upper) ==
    IF Contains(text_upper, "GOALKEEPER") \/ Contains(text_upper, "GOALIE") THEN "GK"
    ELSE IF Contains(text_upper, "DEFENDER") \/ Contains(text_upper, "DEFENCE")
            \/ Contains(text_upper, "DEFENSE")
         THEN "D"
    ELSE IF Contains(text_upper, "MIDFIELDER") \/ Contains(text_upper, "MIDFIELD") THEN "M"
    ELSE IF Contains(text_upper, "FORWARD") \/ Contains(text_upper, "STRIKER") THEN "F"
    ELSE ""

extract_position(text) ==
    IF text = "" THEN ""
    ELSE IF ReSearch(PositionPattern, text, TRUE).found
         THEN pos_map(Upper(Group1(text, ReSearch(PositionPattern, text, TRUE))))
         ELSE PositionKeyword(Upper(text))

\* the dictionary year_map of normalize_academic_year, as key/value pairs
year_map ==
    {<<"Fr", "Freshman">>, <<"Fr.", "Freshman">>, <<"FR", "Freshman">>,
     <<"So", "Sophomore">>, <<"So.", "Sophomore">>, <<"SO", "Sophomore">>,
     <<"Jr", "Junior">>, <<"Jr.", "Junior">>, <<"JR", "Junior">>,
     <<"Sr", "Senior">>, <<"Sr.", "Senior">>, <<"SR", "Senior">>,
     <<"Gr", "Graduate">>, <<"Gr.", "Graduate">>, <<"GR", "Graduate">>,
     <<"R-Fr", "Redshirt Freshman">>, <<"R-Fr.", "Redshirt Freshman">>,
     <<"R-So", "Redshirt Sophomore">>, <<"R-So.", "Redshirt Sophomore">>,
     <<"R-Jr", "Redshirt Junior">>, <<"R-Jr.", "Redshirt Junior">>,
     <<"R-Sr", "Redshirt Senior">>, <<"R-Sr.", "Redshirt Senior">>,
     <<"1st", "Freshman">>, <<"First", "Freshman">>,
     <<"2nd", "Sophomore">>, <<"Second", "Sophomore">>,
     <<"3rd", "Junior">>, <<"Third", "Junior">>,
     <<"4th", "Senior">>, <<"Fourth", "Senior">>}

\* normalize_academic_year returning the trimmed text when the key is unknown
NormalizeYearTrimmed(year_text) ==
    IF year_text = "" THEN ""
    ELSE LET cleaned == Strip(year_text)
         IN  IF \E kv \in year_map : kv[1] = cleaned
             THEN (CHOOSE kv \in year_map : kv[1] = cleaned)[2]
             ELSE cleaned

normalize_academic_year(year_text) ==
    IF year_text = "" THEN ""
    ELSE LET cleaned == Strip(year_text)
         IN  IF \E kv \in year_map : kv[1] = cleaned
             THEN (CHOOSE kv \in year_map : kv[1] = cleaned)[2]
             ELSE year_text

\* r'\s*(Instagram|Twitter|Opens in a new window).*$'
HometownNoisePattern ==
    ReCatOf(<<ReStar(ReSet(WS)),
              ReAltOf(<<ReLit("Instagram"), ReLit("Twitter"),
                        ReLit("Opens in a new window")>>),
              ReStar(ReAny), ReEol>>)

\* college_indicators of parse_hometown_school
college_indicators == {"University", "College", "State", "Tech", "Institute"}

\* parse_hometown_school with a second part that stays the previous school when
\* a third part follows it
HometownResultCollegeKept(parts) ==
    [hometown |-> parts[1],
     high_school |->
         IF Len(parts) > 1 /\ ~\E indicator \in college_indicators : Contains(parts[2], indicator)
         THEN parts[2] ELSE "",
     previous_school |->
         IF Len(parts) > 1 /\ \E indicator \in college_indicators : Contains(parts[2], indicator)
         THEN parts[2]
         ELSE IF Len(parts) > 2 THEN parts[3] ELSE ""]

\* the result of parse_hometown_school from the stripped parts of a text with '/'
HometownResult(parts) ==
    [hometown |-> parts[1],
     high_school |->
         IF Len(parts) > 1 /\ ~\E indicator \in college_indicators : Contains(parts[2], indicator)
         THEN parts[2] ELSE "",
     previous_school |->
         IF Len(parts) > 2 THEN parts[3]
         ELSE IF Len(parts) > 1
                 /\ \E indicator \in college_indicators : Contains(parts[2], indicator)
              THEN parts[2] ELSE ""]

\* parse_hometown_school behind its two re.sub calls
HometownOf(text) ==
    IF Contains(text, "/")
    THEN HometownResult([k \in 1..Len(Split(text, "/")) |-> Strip(Split(text, "/")[k])])
    ELSE [hometown |-> text, high_school |-> "", previous_school |-> ""]

parse_hometown_school(text) ==
    IF text = "" THEN [hometown |-> "", high_school |-> "", previous_school |-> ""]
    ELSE HometownOf(Strip(ReSub(WhitespaceRun, " ",
                                ReSub(HometownNoisePattern, "", text, FALSE), FALSE)))

\* the quote characters of the height patterns (the ASCII ones; the prime and
\* double-prime signs of the character classes are outside the model's alphabet)
FootMarks == {"'"}

InchMarks == {"\"", "'"}

HeightImperial ==
    ReCatOf(<<RePlus(ReSet(Digits)), ReSet(FootMarks), ReStar(ReSet(WS)),
              RePlus(ReSet(Digits)), ReRepOf(ReSet(InchMarks), 1, 2)>>)

\* the list patterns of extract_height, in its order
HeightPatterns ==
    <<ReGroup(ReCatOf(<<HeightImperial,
                        ReOpt(ReCatOf(<<ReStar(ReSet(WS)), ReLit("/"), ReStar(ReSet(WS)),
                                        RePlus(ReSet(Digits)), ReLit("."),
                                        RePlus(ReSet(Digits)), ReLit("m")>>))>>)),
      ReGroup(HeightImperial),
      ReGroup(ReCatOf(<<RePlus(ReSet(Digits)), ReLit("-"), RePlus(ReSet(Digits))>>)),
      ReGroup(ReCatOf(<<RePlus(ReSet(Digits)), ReLit("."), RePlus(ReSet(Digits)),
                        ReLit("m")>>)),
      ReCatOf(<<ReLit("Height:"), ReStar(ReSet(WS)),
                ReGroup(RePlus(ReNotSet({",", "\n"})))>>)>>

RECURSIVE FirstGroup(_, _, _)
\* the loop "for pattern in patterns: match = re.search(...)" from pattern k on:
\* group 1 of the first pattern that matches, or "" (None) when none does
FirstGroup(patterns, text, k) ==
    IF k > Len(patterns) THEN ""
    ELSE IF ReSearch(patterns[k], text, FALSE).found
         THEN Group1(text, ReSearch(patterns[k], text, FALSE))
         ELSE FirstGroup(patterns, text, k + 1)

\* extract_height trying the hyphenated pattern before the imperial ones
ExtractHeightHyphenFirst(text) ==
    IF text = "" THEN ""
    ELSE Strip(FirstGroup(<<HeightPatterns[3], HeightPatterns[1], HeightPatterns[2],
                            HeightPatterns[4], HeightPatterns[5]>>, text, 1))

extract_height(text) == IF text = "" THEN "" ELSE Strip(FirstGroup(HeightPatterns, text, 1))

\* the list patterns of extract_jersey_number, in its order
JerseyPatterns ==
    <<ReCatOf(<<ReLit("Jersey Number"), RePlus(ReSet(WS \cup {":"})),
                ReGroup(RePlus(ReSet(Digits)))>>),
      ReCatOf(<<ReLit("#"), ReGroup(ReRepOf(ReSet(Digits), 1, 2)), ReWordB>>),
      ReCatOf(<<ReLit("No"), ReOpt(ReLit(".")), ReStar(ReSet(WS \cup {":"})),
                ReGroup(ReRepOf(ReSet(Digits), 1, 2)), ReWordB>>),
      ReCatOf(<<ReWordB, ReGroup(ReRepOf(ReSet(Digits), 1, 2)), RePlus(ReSet(WS)),
                ReLookahead(ReSet(UpperLetters))>>)>>

extract_jersey_number(text) ==
    IF text = "" THEN "" ELSE FirstGroup(JerseyPatterns, text, 1)

\* ------------------------------------------------------------------------
\* Player
\* ------------------------------------------------------------------------

\* the dataclass Player; player_id keeps its default None, modelled as << >>
Player(team_id, team, season, division, name, jersey, position, height, year, major, hometown, high_school, previous_school, url) ==
    [team_id |-> team_id, team |-> team, season |-> season, division |-> division,
     player_id |-> <<>>, name |-> name, jersey |-> jersey, position |-> position,
     height |-> height, year |-> year, major |-> major, hometown |-> hometown,
     high_school |-> high_school, previous_school |-> previous_school, url |-> url]

\* the keys of asdict(player) other than team_id, year and player_id
PlainKeys ==
    {"team", "season", "division", "name", "jersey", "position", "height", "major",
     "hometown", "high_school", "previous_school", "url"}

\* Player.to_dict that leaves player_id in the dictionary
ToDictWithPlayerId(player) ==
    [k \in PlainKeys \cup {"class", "ncaa_id", "player_id"} |->
        IF k = "ncaa_id" THEN player.team_id
        ELSE IF k = "player_id" THEN player.player_id
        ELSE clean_text(player[IF k = "class" THEN "year" ELSE k])]

\* Player.to_dict: every str value cleaned, year under the key class, team_id
\* under the key ncaa_id, player_id popped
to_dict(player) ==
    [k \in PlainKeys \cup {"class", "ncaa_id"} |->
        IF k = "ncaa_id" THEN player.team_id
        ELSE clean_text(player[IF k = "class" THEN "year" ELSE k])]

\* ------------------------------------------------------------------------
\* URLBuilder and TeamConfig
\* ------------------------------------------------------------------------

\* season -> season range: "2025" -> "2025-26"
SeasonRange(season) ==
    LET year == ParseInt(season)
    IN  IntToStr(year) \o "-" \o LastChars(IntToStr(year + 1), 2)

\* the year of a season for the /roster/season/<year>/ formats
\* ("2024-25" -> "2025"); season.split('-')[1] when the season has a '-'
SeasonEndYear(season) ==
    IF Contains(season, "-")
    THEN LET year == Split(season, "-")[2]
         IN  IF Len(year) = 2 THEN "20" \o year ELSE year
    ELSE season

build_roster_url(base_url0, season, url_format) ==
    LET base_url == RStripCh(base_url0, "/")
    IN  CASE url_format = "default" -> base_url \o "/roster/" \o season
          [] url_format = "msoc_index" ->
                IF Contains(base_url, "/index")
                THEN Replace(base_url, "/index", "/roster/" \o season)
                ELSE base_url \o "/roster/" \o season
          [] url_format = "msoc_plain" -> base_url \o "/roster/" \o season
          [] url_format = "ucf_table" ->
                base_url \o "/roster/season/" \o season \o "?view=table"
          [] url_format = "virginia_season" ->
                IF IsInt(season)
                THEN base_url \o "/roster/season/" \o SeasonRange(season) \o "/"
                ELSE base_url \o "/roster/season/" \o season \o "/"
          [] url_format = "clemson_roster" ->
                base_url \o "/roster/season/" \o SeasonEndYear(season) \o "/?view=table"
          [] url_format = "kentucky_season" ->
                base_url \o "/roster/season/" \o SeasonEndYear(season) \o "/"
          [] url_format = "msoc_season_range" ->
                LET clean_url == Replace(base_url, "/index", "")
                IN  IF IsInt(season)
                    THEN clean_url \o "/" \o SeasonRange(season) \o "/roster"
                    ELSE clean_url \o "/" \o season \o "/roster"
          [] OTHER -> base_url \o "/roster/" \o season

\* the network location of a URL: what follows the scheme, up to the first '/'
HostOf(url) ==
    LET rest == IF StartsWith(url, "https://") THEN SubSeq(url, 9, Len(url))
                ELSE IF StartsWith(url, "http://") THEN SubSeq(url, 8, Len(url))
                ELSE url
    IN  Split1(rest, "/")[1]

RECURSIVE JoinDots(_)
JoinDots(labels) ==
    IF labels = <<>> THEN ""
    ELSE IF Len(labels) = 1 THEN labels[1]
    ELSE labels[1] \o "." \o JoinDots(Tail(labels))

\* tldextract.extract(url) for a host whose public suffix is its last label
HostParts(labels) ==
    IF Len(labels) = 1 THEN [subdomain |-> "", domain |-> labels[1], suffix |-> ""]
    ELSE [subdomain |-> JoinDots(SubSeq(labels, 1, Len(labels) - 2)),
          domain |-> labels[Len(labels) - 1], suffix |-> labels[Len(labels)]]

tldextract(url) == HostParts(Split(HostOf(url), "."))

\* f"{extracted.subdomain}.{extracted.domain}.{extracted.suffix}", without the
\* subdomain when it is empty
FullDomain(extracted) ==
    IF extracted.subdomain # ""
    THEN extracted.subdomain \o "." \o extracted.domain \o "." \o extracted.suffix
    ELSE extracted.domain \o "." \o extracted.suffix

\* the "Extract base domain for URLs" block every extractor repeats
DomainOf(base_url) == FullDomain(tldextract(base_url))

extract_base_url(full_url) == "https://" \o FullDomain(tldextract(full_url))

\* the "Build absolute URL" block of the extractors
AbsoluteUrl(domain, href) ==
    IF StartsWith(href, "http") THEN href
    ELSE IF StartsWith(href, "/") THEN "https://" \o domain \o href
    ELSE "https://" \o domain \o "/" \o href

\* TEAM_CONFIGS: the configured team ids by url_format, and those with requires_js
ConfigFormat ==
    [id \in {14, 72, 74, 128, 147, 216, 248, 334, 513, 648, 1023, 457, 523, 539,
             630, 674, 742, 746, 813, 1000, 1356, 186, 8956} |->
        CASE id \in {14, 72, 248, 457, 813} -> "default"
          [] id \in {74, 216, 1023, 1000, 186, 8956} -> "msoc_season_range"
          [] id \in {128, 523, 539, 630, 674, 742, 1356} -> "ucf_table"
          [] id = 147 -> "clemson_roster"
          [] id \in {334, 648} -> "kentucky_season"
          [] id \in {513, 746} -> "virginia_season"]

ConfigRequiresJs == {72, 128, 248, 334, 513, 648, 523, 539, 630, 674, 742, 1356, 186}

requires_javascript(team_id) ==
    IF team_id \in DOMAIN ConfigFormat THEN team_id \in ConfigRequiresJs ELSE FALSE

\* get_url_format that looks at the URL before it looks at TEAM_CONFIGS
GetUrlFormatUrlFirst(team_id, team_url) ==
    IF team_url # "" /\ (Contains(team_url, "/sports/msoc/index")
                         \/ Contains(team_url, "/Sports/msoc"))
    THEN "msoc_index"
    ELSE IF team_url # "" /\ Contains(team_url, "/sports/msoc") THEN "msoc_plain"
    ELSE IF team_id \in DOMAIN ConfigFormat THEN ConfigFormat[team_id]
    ELSE "default"

get_url_format(team_id, team_url) ==
    IF team_id \in DOMAIN ConfigFormat THEN ConfigFormat[team_id]
    ELSE IF team_url # "" /\ (Contains(team_url, "/sports/msoc/index")
                             \/ Contains(team_url, "/Sports/msoc"))
         THEN "msoc_index"
    ELSE IF team_url # "" /\ Contains(team_url, "/sports/msoc") THEN "msoc_plain"
    ELSE "default"

\* the team lists among the class attributes of TeamConfig, by name: the
\* class body defines TEAM_CONFIGS and the three class methods, and no
\* STANDARD_TEAMS, MSOC_TEAMS or TABLE_TEAMS
TeamLists == [name \in {} |-> {}]

\* the outcome of a call: the exception it raises, or the value it returns
Raises(exception) == [raised |-> exception, value |-> ""]

Returns(value) == [raised |-> "", value |-> value]

\* get_scraper_type: reading a class attribute that does not exist raises
\* AttributeError
get_scraper_type(team_id) ==
    IF "STANDARD_TEAMS" \notin DOMAIN TeamLists THEN Raises("AttributeError")
    ELSE IF team_id \in TeamLists["STANDARD_TEAMS"] THEN Returns("standard")
    ELSE IF "MSOC_TEAMS" \notin DOMAIN TeamLists THEN Raises("AttributeError")
    ELSE IF team_id \in TeamLists["MSOC_TEAMS"] THEN Returns("table")
    ELSE IF "TABLE_TEAMS" \notin DOMAIN TeamLists THEN Raises("AttributeError")
    ELSE IF team_id \in TeamLists["TABLE_TEAMS"] THEN Returns("table")
    ELSE Returns("standard")

\* StandardScraper._build_season_range_url
Std_build_season_range_url(base_url0, season) ==
    LET base_url == RStripCh(base_url0, "/")
    IN  IF IsInt(season) THEN base_url \o "/" \o SeasonRange(season) \o "/roster"
        ELSE base_url \o "/" \o season \o "/roster"

\* JSScraper._build_season_range_url
Js_build_season_range_url(base_url0, season) ==
    LET stripped == RStripCh(base_url0, "/")
        base_url == IF EndsWith(stripped, "/index")
                    THEN SubSeq(stripped, 1, Len(stripped) - 6) ELSE stripped
    IN  IF IsInt(season) THEN base_url \o "/" \o SeasonRange(season) \o "/roster"
        ELSE base_url \o "/" \o season \o "/roster"

\* ------------------------------------------------------------------------
\* Parsed documents
\* ------------------------------------------------------------------------
\* A document is a record of what the extractors select from the parsed HTML:
\*   roster_players  the li.sidearm-roster-player elements
\*   list_items      the li.sidearm-roster-list-item elements
\*   tables          the table elements
\*   mod_roster      << >>: no div.mod-roster; <<0>>: the first one holds no
\*                   table; <<k>>: its first table is tables[k]
\*   cards           the div.s-person-card elements
\*   wmt_items       the div.roster__item elements
\*   wp_items        the li.person__item elements
\* each in document order.  An entry's field fault says that parsing the entry
\* raises an exception inside the try block of the extractor's loop.
\* A link is a record [href, text] of an <a> element; a link found by
\* find('a', href=True) has href = <<value>>.

RECURSIVE Flatten(_)
\* the concatenation of a sequence of sequences
Flatten(ss) == IF ss = <<>> THEN <<>> ELSE Head(ss) \o Flatten(Tail(ss))

\* FieldExtractors.f(elem.get_text()) if elem else ''
CleanOpt(elem) == IF elem # <<>> THEN clean_text(elem[1]) ELSE ""

PositionOpt(elem) == IF elem # <<>> THEN extract_position(elem[1]) ELSE ""

HeightOpt(elem) == IF elem # <<>> THEN extract_height(elem[1]) ELSE ""

YearOpt(elem) == IF elem # <<>> THEN normalize_academic_year(elem[1]) ELSE ""

\* the first link of a sequence of links that carries an href
RECURSIVE FirstHref(_)
FirstHref(links) ==
    IF links = <<>> THEN <<>>
    ELSE IF Head(links).href # <<>> THEN <<Head(links)>>
    ELSE FirstHref(Tail(links))

\* ------------------------------------------------------------------------
\* StandardScraper: the list and card extractors
\* ------------------------------------------------------------------------
\* Each XxxEntry operator is the body of one extractor's loop: << >> when the
\* entry is skipped (continue, or an exception caught), <<player>> otherwise.

\* the body of the for loop of _extract_players (li.sidearm-roster-player):
\* item = [jersey, heading, links, position, height, year, major, hometown,
\*         highschool, previous, fault]; heading is the h3 or h2, links are the
\* <a> elements inside it
SidearmPlayerBody(item, ctx, domain) ==
    IF item.heading = <<>> THEN <<>>
    ELSE LET name_link == FirstHref(item.links)
             name == IF name_link # <<>> THEN clean_text(name_link[1].text)
                     ELSE clean_text(item.heading[1])
             profile_url == IF name_link # <<>>
                            THEN AbsoluteUrl(domain, name_link[1].href[1]) ELSE ""
         IN  <<Player(ctx.team_id, ctx.team_name, ctx.season, ctx.division,
                      name, CleanOpt(item.jersey), PositionOpt(item.position),
                      HeightOpt(item.height), YearOpt(item.year), CleanOpt(item.major),
                      CleanOpt(item.hometown), CleanOpt(item.highschool),
                      CleanOpt(item.previous), profile_url)>>

SidearmPlayerEntry(item, ctx, domain) ==
    IF item.fault THEN <<>> ELSE SidearmPlayerBody(item, ctx, domain)

\* the li.sidearm-roster-player loop of _extract_players
ExtractSidearmPlayers(html, ctx) ==
    LET domain == DomainOf(ctx.base_url)
    IN  Flatten([k \in 1..Len(html.roster_players) |->
                    SidearmPlayerEntry(html.roster_players[k], ctx, domain)])

\* position (0-based) of the first occurrence of c in s: s.index(c)
IndexOf(s, c) == Min(Occurrences(s, c))

\* the college_indicators of _extract_players_from_list_items
ListItemCollegeIndicators ==
    {"University", "College", "State", "Tech", "Institute", "Univ", "U.", "SC",
     "NJIT", "SIUE", "DME", "DePaul", "Evansville", "Bonaventure"}

\* the split of the high-school text "School (College)" of a list item:
\* <<high_school, previous_school>>
ListItemSchools(hs_text) ==
    IF Contains(hs_text, "(") /\ Contains(hs_text, ")")
    THEN LET main_part  == Strip(SubSeq(hs_text, 1, IndexOf(hs_text, "(")))
             paren_part == Strip(SubSeq(hs_text, IndexOf(hs_text, "(") + 2,
                                        IndexOf(hs_text, ")")))
         IN  IF \E ind \in ListItemCollegeIndicators :
                    Contains(Lower(paren_part), Lower(ind))
             THEN <<main_part, paren_part>>
             ELSE <<IF main_part # "" THEN main_part ELSE paren_part, "">>
    ELSE <<hs_text, "">>

\* the body of the loop of _extract_players_from_list_items:
\* item = [link_elem, photo_number, name_elem, links, position, year, height,
\*         hometown, highschool, previous, fault]; photo_number is << >> or
\* <<[span, text]>>, links are the <a> elements of the name div
ListItemBody(item, ctx, domain) ==
    IF ~item.link_elem THEN <<>>
    ELSE LET jersey == IF item.photo_number = <<>> THEN ""
                       ELSE IF item.photo_number[1].span # <<>>
                            THEN clean_text(item.photo_number[1].span[1])
                            ELSE clean_text(item.photo_number[1].text)
             name_link == IF item.name_elem # <<>> THEN FirstHref(item.links) ELSE <<>>
             name == IF item.name_elem = <<>> THEN ""
                     ELSE IF name_link # <<>> THEN clean_text(name_link[1].text)
                     ELSE clean_text(item.name_elem[1])
             profile_url == IF name_link # <<>>
                            THEN AbsoluteUrl(domain, name_link[1].href[1]) ELSE ""
             schools == IF item.highschool # <<>>
                        THEN ListItemSchools(clean_text(item.highschool[1]))
                        ELSE <<"", "">>
             prev_text == CleanOpt(item.previous)
             previous_school == IF prev_text # "" THEN prev_text ELSE schools[2]
         IN  IF name = "" THEN <<>>
             ELSE <<Player(ctx.team_id, ctx.team_name, ctx.season, ctx.division,
                           name, jersey, PositionOpt(item.position),
                           HeightOpt(item.height), YearOpt(item.year), "",
                           CleanOpt(item.hometown), schools[1], previous_school,
                           profile_url)>>

ListItemEntry(item, ctx, domain) ==
    IF item.fault THEN <<>> ELSE ListItemBody(item, ctx, domain)

_extract_players_from_list_items(html, ctx) ==
    LET domain == DomainOf(ctx.base_url)
    IN  Flatten([k \in 1..Len(html.list_items) |->
                    ListItemEntry(html.list_items[k], ctx, domain)])

RECURSIVE LastStat(_, _, _, _)
\* the "for stat in bio_stats" loops of the card extractor: the value left by
\* the last text that starts with label, label removed and stripped; init if none
LastStat(texts, label, k, acc) ==
    IF k > Len(texts) THEN acc
    ELSE LET stat_text == Strip(texts[k])
         IN  LastStat(texts, label, k + 1,
                      IF StartsWith(stat_text, label)
                      THEN <<Strip(Replace(stat_text, label, ""))>> ELSE acc)

\* whether an earlier branch of the if/elif chain takes the text
CardStatTaken(text, labels) == \E l \in labels : StartsWith(Strip(text), l)

\* the texts an elif branch for label sees: those no earlier branch takes
CardStatsFor(texts, earlier) ==
    [k \in 1..Len(texts) |-> IF CardStatTaken(texts[k], earlier) THEN "" ELSE texts[k]]

\* the body of the loop of _extract_players_from_cards:
\* card = [name_elem, thumbnail, bio_stats, location_items, links, fault]
CardBody(card, ctx) ==
    LET name == CleanOpt(card.name_elem)
        jersey == IF card.thumbnail # <<>> /\ Contains(card.thumbnail[1], "Jersey Number")
                  THEN Strip(Replace(card.thumbnail[1], "Jersey Number", ""))
                  ELSE ""
        pos_stat  == LastStat(card.bio_stats, "Position", 1, <<>>)
        year_stat == LastStat(CardStatsFor(card.bio_stats, {"Position"}),
                              "Academic Year", 1, <<>>)
        ht_stat   == LastStat(CardStatsFor(card.bio_stats, {"Position", "Academic Year"}),
                              "Height", 1, <<>>)
        home_loc  == LastStat(card.location_items, "Hometown", 1, <<>>)
        hs_loc    == LastStat(CardStatsFor(card.location_items, {"Hometown"}),
                              "Last School", 1, <<>>)
        cta_link  == FirstHref(card.links)
        profile_url == IF cta_link # <<>>
                       THEN AbsoluteUrl(DomainOf(ctx.base_url), cta_link[1].href[1])
                       ELSE ""
    IN  IF name = "" \/ jersey = "" THEN <<>>
        ELSE <<Player(ctx.team_id, ctx.team_name, ctx.season, ctx.division,
                      name, jersey,
                      IF pos_stat # <<>> THEN extract_position(pos_stat[1]) ELSE "",
                      IF ht_stat # <<>> THEN extract_height(ht_stat[1]) ELSE "",
                      IF year_stat # <<>> THEN normalize_academic_year(year_stat[1]) ELSE "",
                      "",
                      IF home_loc # <<>> THEN home_loc[1] ELSE "",
                      IF hs_loc # <<>> THEN hs_loc[1] ELSE "",
                      "", profile_url)>>

CardEntry(card, ctx) == IF card.fault THEN <<>> ELSE CardBody(card, ctx)

\* a variant of the card extractor whose try block encloses the whole loop: one
\* exception ends the extraction with nothing
CardsTryAroundLoop(html, ctx) ==
    IF \E k \in 1..Len(html.cards) : html.cards[k].fault THEN <<>>
    ELSE Flatten([k \in 1..Len(html.cards) |-> CardBody(html.cards[k], ctx)])

_extract_players_from_cards(html, ctx) ==
    Flatten([k \in 1..Len(html.cards) |-> CardEntry(html.cards[k], ctx)])

\* [p.strip() for p in parts]
StripAll(parts) == [k \in 1..Len(parts) |-> Strip(parts[k])]

\* [p for p in parts if p]
NonEmpty(parts) == Flatten([k \in 1..Len(parts) |-> IF parts[k] # "" THEN <<parts[k]>> ELSE <<>>])

\* r'@\w+.*$'
SocialHandlePattern ==
    ReCatOf(<<ReLit("@"), RePlus(ReSet(WordChars)), ReStar(ReAny), ReEol>>)

\* the body of the loop of _extract_players_from_wmt:
\* item = [name_content, image_div, number_span, links, title, info_p,
\*         description, fault]; name_content is the content attribute of
\* span[itemprop=name]; image_div is << >> or <<[span, links]>>; links are the
\* <a> elements of the item outside the image div; description is << >> or
\* <<the texts of the <p> elements of div.roster__description>>
WmtBody(item, ctx) ==
    LET name == IF item.name_content # <<>> THEN Strip(item.name_content[1]) ELSE ""
        image_jersey == IF item.image_div # <<>> /\ item.image_div[1].span # <<>>
                        THEN Strip(item.image_div[1].span[1]) ELSE ""
        jersey == IF image_jersey # "" THEN image_jersey
                  ELSE IF item.number_span # <<>> THEN Strip(item.number_span[1])
                  ELSE ""
        domain == DomainOf(ctx.base_url)
        image_link == IF item.image_div # <<>> THEN FirstHref(item.image_div[1].links)
                      ELSE <<>>
        image_url == IF image_link # <<>> THEN AbsoluteUrl(domain, image_link[1].href[1])
                     ELSE ""
        item_link == IF image_link # <<>> THEN image_link ELSE FirstHref(item.links)
        profile_url == IF image_url # "" THEN image_url
                       ELSE IF item_link # <<>>
                            THEN AbsoluteUrl(domain, item_link[1].href[1])
                       ELSE ""
        title_position == PositionOpt(item.title)
        info_text == IF item.info_p # <<>> THEN Strip(item.info_p[1]) ELSE ""
        info_parts == Split(info_text, "-")
        has_dash == item.info_p # <<>> /\ Contains(info_text, "-")
        position == IF has_dash /\ title_position = ""
                    THEN extract_position(Strip(info_parts[1])) ELSE title_position
        p_tags == IF item.info_p = <<>> /\ item.description # <<>>
                  THEN item.description[1] ELSE <<>>
        first_parts == IF Len(p_tags) > 0 THEN StripAll(Split(Strip(p_tags[1]), "/"))
                       ELSE <<>>
        height == IF has_dash THEN extract_height(Strip(info_parts[2]))
                  ELSE IF Len(first_parts) >= 1 THEN extract_height(first_parts[1])
                  ELSE ""
        year == IF Len(first_parts) >= 3 THEN normalize_academic_year(first_parts[3])
                ELSE ""
        second_p == IF Len(p_tags) > 1
                    THEN Strip(ReSub(SocialHandlePattern, "", Strip(p_tags[2]), FALSE))
                    ELSE ""
        location_parts == IF Len(p_tags) > 1 THEN NonEmpty(StripAll(Split(second_p, "/")))
                          ELSE <<>>
    IN  IF name = "" THEN <<>>
        ELSE <<Player(ctx.team_id, ctx.team_name, ctx.season, ctx.division,
                      name, jersey, position, height, year, "",
                      IF Len(location_parts) >= 1 THEN location_parts[1] ELSE "",
                      IF Len(location_parts) >= 2 THEN location_parts[2] ELSE "",
                      IF Len(location_parts) >= 3 THEN location_parts[3] ELSE "",
                      profile_url)>>

WmtEntry(item, ctx) == IF item.fault THEN <<>> ELSE WmtBody(item, ctx)

_extract_players_from_wmt(html, ctx) ==
    Flatten([k \in 1..Len(html.wmt_items) |-> WmtEntry(html.wmt_items[k], ctx)])

\* r'[^\d]'
NonDigit == ReNotSet(Digits)

\* r'\s*Opens in a new window.*$'
NewWindowPattern ==
    ReCatOf(<<ReStar(ReSet(WS)), ReLit("Opens in a new window"), ReStar(ReAny), ReEol>>)

\* the value a meta__row gives: <<field_name, field_value>>, or << >> when the
\* row lacks its name or value div; row = [name, value], value = <<[text, has_links]>>
MetaRow(row) ==
    IF row.name = <<>> \/ row.value = <<>> THEN <<>>
    ELSE LET field_name == RStripCh(Lower(Strip(row.name[1])), ":")
             stripped == Strip(row.value[1].text)
             field_value == IF row.value[1].has_links /\ ~Contains(stripped, "@")
                            THEN ReSub(NewWindowPattern, "", stripped, FALSE)
                            ELSE stripped
         IN  <<[name |-> field_name, value |-> field_value]>>

RECURSIVE LastMeta(_, _, _, _)
\* the value the loop over the meta rows leaves for a field: that of the last
\* row of this name
LastMeta(rows, field, k, acc) ==
    IF k > Len(rows) THEN acc
    ELSE LET m == MetaRow(rows[k])
         IN  LastMeta(rows, field, k + 1,
                      IF m # <<>> /\ m[1].name = field THEN <<m[1].value>> ELSE acc)

\* the body of the loop of _extract_players_from_wordpress_roster:
\* item = [number, name_elem, subtitle, meta, fault]; name_elem is << >> or
\* <<[custom_value, href]>> (a.custom-value and two of its attributes);
\* subtitle is << >> or <<texts of the span.person__value>>; meta is << >> or
\* <<the meta__row elements>>
WordpressBody(item, ctx, domain) ==
    IF item.number = <<>> THEN <<>>
    ELSE LET jersey == ReSub(NonDigit, "", Strip(item.number[1]), FALSE)
             name == IF item.name_elem # <<>> /\ item.name_elem[1].custom_value # <<>>
                     THEN Strip(item.name_elem[1].custom_value[1]) ELSE ""
             href == IF item.name_elem # <<>> /\ item.name_elem[1].href # <<>>
                     THEN item.name_elem[1].href[1] ELSE ""
             profile_url == IF href # "" THEN AbsoluteUrl(domain, href) ELSE ""
             value_spans == IF item.subtitle # <<>> THEN item.subtitle[1] ELSE <<>>
             height == IF Len(value_spans) > 0 THEN extract_height(Strip(value_spans[1]))
                       ELSE ""
             rows == IF item.meta # <<>> THEN item.meta[1] ELSE <<>>
             position == LastMeta(rows, "position", 1, <<>>)
             year == LastMeta(rows, "year", 1, <<>>)
             hometown == LastMeta(rows, "hometown", 1, <<>>)
             major == LastMeta(rows, "major", 1, <<>>)
         IN  IF name = "" THEN <<>>
             ELSE <<Player(ctx.team_id, ctx.team_name, ctx.season, ctx.division,
                           name, jersey,
                           IF position # <<>> THEN extract_position(position[1]) ELSE "",
                           height,
                           IF year # <<>> THEN normalize_academic_year(year[1]) ELSE "",
                           IF major # <<>> THEN major[1] ELSE "",
                           IF hometown # <<>> THEN hometown[1] ELSE "",
                           "", "", profile_url)>>

WordpressEntry(item, ctx, domain) ==
    IF item.fault THEN <<>> ELSE WordpressBody(item, ctx, domain)

_extract_players_from_wordpress_roster(html, ctx) ==
    LET domain == DomainOf(ctx.base_url)
    IN  Flatten([k \in 1..Len(html.wp_items) |->
                    WordpressEntry(html.wp_items[k], ctx, domain)])

\* ------------------------------------------------------------------------
\* StandardScraper: the table extractors
\* ------------------------------------------------------------------------
\* table = [id, classes, has_thead, head_rows, has_tbody, body_rows]: head_rows
\*         are the <tr> of the thead (none without a thead), body_rows the
\*         other <tr> of the table
\* row   = [cells, sidearm, fault]; sidearm: the class s-table-body__row
\* cell  = [tag, text, label_span, links, data_label, data_field_label, button,
\*          sidearm]; tag is "td" or "th"; label_span is the text of a
\*         span.label at the start of the cell and text is the text after it;
\*         button is << >> or <<[aria_label, text]>>; sidearm: the class
\*         s-table-header__column

\* cell.get_text()
CellText(cell) == (IF cell.label_span # <<>> THEN cell.label_span[1] ELSE "") \o cell.text

\* table.find_all('tr')
AllRows(table) == table.head_rows \o table.body_rows

\* the concatenation of the cells of some rows
CellsOf(rows) == Flatten([k \in 1..Len(rows) |-> rows[k].cells])

IsTh(cell) == cell.tag = "th"

Max(S) == CHOOSE x \in S : \A y \in S : x >= y

\* header_map[field] after "for i, header in enumerate(headers)": the index
\* (0-based) of the last header the if/elif chain maps to the field, -1 when
\* the field is not in header_map; fields[k] is the chain's field of header k
HeaderIndex(fields, field) ==
    IF \A k \in 1..Len(fields) : fields[k] # field THEN -1
    ELSE Max({k \in 1..Len(fields) : fields[k] = field}) - 1

\* the fields the header loops of the table extractors map columns to
HeaderFields ==
    {"name", "jersey", "position", "height", "year", "weight", "hometown",
     "high_school", "previous_school"}

\* header_map after the header loop, -1 standing for a field that is not in it
HeaderMap(fields) == [field \in HeaderFields |-> HeaderIndex(fields, field)]

\* "field in header_map and header_map[field] < len(cells)"
Mapped(idx, cells) == idx >= 0 /\ idx < Len(cells)

\* name and profile URL from a name cell's first link with an href:
\* <<name, profile_url>>, the cell's text when it has no such link
NameFromCell(cell, domain) ==
    LET link == FirstHref(cell.links)
    IN  IF link # <<>>
        THEN <<clean_text(link[1].text), AbsoluteUrl(domain, link[1].href[1])>>
        ELSE <<clean_text(CellText(cell)), "">>

\* hometown_hs.split(' / ', 1): <<hometown, high_school>>
SplitHometown(hometown_hs) ==
    IF Contains(hometown_hs, " / ") THEN Split1(hometown_hs, " / ")
    ELSE <<hometown_hs, "">>

\* the if/elif chain of the header loop of _extract_players_from_kentucky_table
KentuckyField(th) ==
    LET htext == Lower(Strip(CellText(th)))
    IN  IF Contains(htext, "number") \/ Contains(htext, "no") \/ Contains(htext, "#")
        THEN "jersey"
        ELSE IF Contains(htext, "name") THEN "name"
        ELSE IF Contains(htext, "position") \/ Contains(htext, "pos") THEN "position"
        ELSE IF Contains(htext, "height") \/ Contains(htext, "ht") THEN "height"
        ELSE IF Contains(htext, "class") \/ Contains(htext, "yr") \/ Contains(htext, "year")
             THEN "year"
        ELSE IF Contains(htext, "hometown") \/ Contains(htext, "home") THEN "hometown"
        ELSE IF Contains(htext, "high") /\ Contains(htext, "school") THEN "high_school"
        ELSE IF Contains(htext, "previous") THEN "previous_school"
        ELSE ""

\* the body of the row loop of _extract_players_from_kentucky_table
KentuckyRowBody(row, header_map, ctx, domain) ==
    LET cells == row.cells
        H(field) == header_map[field]
        Cell(field) == cells[H(field) + 1]
        named == IF Mapped(H("name"), cells) THEN NameFromCell(Cell("name"), domain)
                 ELSE <<"", "">>
    IN  IF Len(cells) < 2 THEN <<>>
        ELSE IF named[1] = "" THEN <<>>
        ELSE <<Player(ctx.team_id, ctx.team_name, ctx.season, ctx.division,
                  named[1],
                  IF Mapped(H("jersey"), cells) THEN clean_text(CellText(Cell("jersey")))
                  ELSE "",
                  IF Mapped(H("position"), cells)
                  THEN extract_position(CellText(Cell("position"))) ELSE "",
                  IF Mapped(H("height"), cells)
                  THEN extract_height(CellText(Cell("height"))) ELSE "",
                  IF Mapped(H("year"), cells)
                  THEN normalize_academic_year(Strip(CellText(Cell("year")))) ELSE "",
                  "",
                  IF Mapped(H("hometown"), cells)
                  THEN clean_text(CellText(Cell("hometown"))) ELSE "",
                  IF Mapped(H("high_school"), cells)
                  THEN clean_text(CellText(Cell("high_school"))) ELSE "",
                  IF Mapped(H("previous_school"), cells)
                  THEN clean_text(CellText(Cell("previous_school"))) ELSE "",
                  named[2])>>

KentuckyRowEntry(row, header_map, ctx, domain) ==
    IF row.fault THEN <<>> ELSE KentuckyRowBody(row, header_map, ctx, domain)

\* the tables whose id matches r'^players-table', in document order
PlayersTables(html) ==
    SelectSeq(html.tables, LAMBDA t : StartsWith(t.id, "players-table"))

_extract_players_from_kentucky_table(html, ctx) ==
    IF PlayersTables(html) = <<>> THEN <<>>
    ELSE LET table == PlayersTables(html)[1]
             headers == IF table.has_thead THEN SelectSeq(CellsOf(table.head_rows), IsTh)
                        ELSE SelectSeq(CellsOf(AllRows(table)), IsTh)
             rows == IF table.has_tbody THEN table.body_rows
                     ELSE IF AllRows(table) = <<>> THEN <<>> ELSE Tail(AllRows(table))
             domain == DomainOf(ctx.base_url)
         IN  Flatten([k \in 1..Len(rows) |->
                        KentuckyRowEntry(rows[k],
                            HeaderMap([h \in 1..Len(headers) |-> KentuckyField(headers[h])]),
                            ctx, domain)])

\* the if/elif chain of the header loop of _extract_players_from_generic_roster_table
ModRosterField(header) ==
    LET text_to_check ==
            IF header.button # <<>>
            THEN IF Lower(header.button[1].aria_label) # ""
                 THEN Lower(header.button[1].aria_label)
                 ELSE Lower(Strip(header.button[1].text))
            ELSE Lower(Strip(CellText(header)))
        Has(x) == Contains(text_to_check, x)
    IN  IF Has("number") \/ Has("no.") \/ Has("no:") THEN "jersey"
        ELSE IF Has("name") \/ Has("last_name") THEN "name"
        ELSE IF Has("position") \/ Has("pos.") \/ Has("pos:") THEN "position"
        ELSE IF Has("year") \/ Has("yr.") \/ Has("yr:") THEN "year"
        ELSE IF Has("height") \/ Has("ht.") \/ Has("ht:") THEN "height"
        ELSE IF Has("weight") \/ Has("wt.") \/ Has("wt:") THEN "weight"
        ELSE IF Has("hometown") \/ Has("home") \/ Has("hometown/previous") THEN "hometown"
        ELSE ""

\* the body of the row loop of _extract_players_from_generic_roster_table; the
\* span.label elements are removed before a cell's text is read
ModRosterRowBody(row, header_map, ctx, domain) ==
    LET cells == row.cells
        H(field) == header_map[field]
        Cell(field) == cells[H(field) + 1]
        name_link == IF Mapped(H("name"), cells) THEN FirstHref(Cell("name").links)
                     ELSE <<>>
        name == IF name_link # <<>> THEN clean_text(name_link[1].text) ELSE ""
        profile_url == IF name_link # <<>>
                       THEN AbsoluteUrl(domain, name_link[1].href[1]) ELSE ""
        home == IF Mapped(H("hometown"), cells)
                THEN SplitHometown(clean_text(Cell("hometown").text))
                ELSE <<"", "">>
    IN  IF Len(cells) < 2 THEN <<>>
        ELSE IF name = "" \/ Lower(name) = "null" THEN <<>>
        ELSE <<Player(ctx.team_id, ctx.team_name, ctx.season, ctx.division,
                  name,
                  IF Mapped(H("jersey"), cells) THEN clean_text(Cell("jersey").text)
                  ELSE "",
                  IF Mapped(H("position"), cells)
                  THEN extract_position(Cell("position").text) ELSE "",
                  IF Mapped(H("height"), cells)
                  THEN extract_height(Cell("height").text) ELSE "",
                  IF Mapped(H("year"), cells)
                  THEN normalize_academic_year(Cell("year").text) ELSE "",
                  "", home[1], home[2], "", profile_url)>>

ModRosterRowEntry(row, header_map, ctx, domain) ==
    IF row.fault THEN <<>> ELSE ModRosterRowBody(row, header_map, ctx, domain)

_extract_players_from_generic_roster_table(html, ctx) ==
    IF html.mod_roster = <<>> THEN <<>>
    ELSE IF html.mod_roster[1] = 0 THEN <<>>
    ELSE LET table == html.tables[html.mod_roster[1]]
             headers == IF table.head_rows = <<>> THEN <<>>
                        ELSE SelectSeq(table.head_rows[1].cells, IsTh)
             domain == DomainOf(ctx.base_url)
         IN  IF ~table.has_thead \/ table.head_rows = <<>> \/ headers = <<>> THEN <<>>
             ELSE IF ~table.has_tbody THEN <<>>
             ELSE Flatten([k \in 1..Len(table.body_rows) |->
                            ModRosterRowEntry(table.body_rows[k],
                                HeaderMap([h \in 1..Len(headers) |-> ModRosterField(headers[h])]),
                                ctx, domain)])

HasDataFieldLabel(cell) == cell.tag = "th" /\ cell.data_field_label # <<>>

\* table.find('th', attrs={'data-field-label': True}) finds something
HasDataFieldHeader(table) == SelectSeq(CellsOf(AllRows(table)), HasDataFieldLabel) # <<>>

\* the if/elif chain of the header loop of _extract_players_from_data_field_table
DataFieldField(header) ==
    LET label == Lower(Strip(header.data_field_label[1]))
        Has(x) == Contains(label, x)
    IN  IF Has("no.") \/ Has("number") THEN "jersey"
        ELSE IF Has("name") THEN "name"
        ELSE IF Has("pos") THEN "position"
        ELSE IF Has("cl.") \/ Has("class") \/ Has("year") \/ Has("yr") THEN "year"
        ELSE IF Has("ht.") \/ Has("height") THEN "height"
        ELSE IF Has("wt.") \/ Has("weight") THEN "weight"
        ELSE IF Has("hometown") \/ Has("home") THEN "hometown"
        ELSE IF Has("high") /\ Has("school") THEN "high_school"
        ELSE IF Has("previous") /\ (Has("college") \/ Has("school")) THEN "previous_school"
        ELSE ""

\* a link with an href whose stripped text has more than 2 characters
IsNameLink(link) == link.href # <<>> /\ Len(Strip(link.text)) > 2

\* the body of the row loop of _extract_players_from_data_field_table
DataFieldRowBody(row, header_map, ctx, domain) ==
    LET cells == row.cells
        H(field) == header_map[field]
        Cell(field) == cells[H(field) + 1]
        name_links == IF Mapped(H("name"), cells)
                      THEN SelectSeq(Cell("name").links, IsNameLink) ELSE <<>>
        name == IF ~Mapped(H("name"), cells) THEN ""
                ELSE IF name_links # <<>> THEN clean_text(name_links[1].text)
                ELSE clean_text(CellText(Cell("name")))
        profile_url == IF name_links # <<>>
                       THEN AbsoluteUrl(domain, name_links[1].href[1]) ELSE ""
        home == IF Mapped(H("hometown"), cells)
                THEN SplitHometown(clean_text(Cell("hometown").text))
                ELSE <<"", "">>
        high_school == IF home[2] = "" /\ Mapped(H("high_school"), cells)
                       THEN clean_text(Cell("high_school").text) ELSE home[2]
    IN  IF Len(cells) < 2 THEN <<>>
        ELSE IF name = "" \/ Lower(name) = "null" THEN <<>>
        ELSE <<Player(ctx.team_id, ctx.team_name, ctx.season, ctx.division,
                  name,
                  IF Mapped(H("jersey"), cells) THEN clean_text(Cell("jersey").text)
                  ELSE "",
                  IF Mapped(H("position"), cells)
                  THEN extract_position(Cell("position").text) ELSE "",
                  IF Mapped(H("height"), cells)
                  THEN extract_height(Cell("height").text) ELSE "",
                  IF Mapped(H("year"), cells)
                  THEN normalize_academic_year(Cell("year").text) ELSE "",
                  "", home[1], high_school,
                  IF Mapped(H("previous_school"), cells)
                  THEN clean_text(Cell("previous_school").text) ELSE "",
                  profile_url)>>

DataFieldRowEntry(row, header_map, ctx, domain) ==
    IF row.fault THEN <<>> ELSE DataFieldRowBody(row, header_map, ctx, domain)

_extract_players_from_data_field_table(html, ctx) ==
    LET found == SelectSeq(html.tables, HasDataFieldHeader)
    IN  IF found = <<>> THEN <<>>
        ELSE LET table == found[1]
                 headers == SelectSeq(CellsOf(AllRows(table)), HasDataFieldLabel)
                 domain == DomainOf(ctx.base_url)
             IN  IF ~table.has_tbody THEN <<>>
                 ELSE Flatten([k \in 1..Len(table.body_rows) |->
                                DataFieldRowEntry(table.body_rows[k],
                                    HeaderMap([h \in 1..Len(headers) |-> DataFieldField(headers[h])]),
                                    ctx, domain)])

IsSidearmRow(row) == row.sidearm

IsSidearmHeader(cell) == cell.tag = "th" /\ cell.sidearm

\* table.find('thead').find('tr') when the table has a thead, table.find('tr')
\* otherwise: << >> or <<row>>
TableHeaderRow(table) ==
    IF table.has_thead
    THEN IF table.head_rows = <<>> THEN <<>> ELSE <<table.head_rows[1]>>
    ELSE IF AllRows(table) = <<>> THEN <<>> ELSE <<AllRows(table)[1]>>

\* ' '.join([cell.get_text().strip().lower() for cell in header_cells])
RECURSIVE JoinHeaderText(_)
JoinHeaderText(cells) ==
    IF cells = <<>> THEN ""
    ELSE IF Len(cells) = 1 THEN Lower(Strip(CellText(cells[1])))
    ELSE Lower(Strip(CellText(cells[1]))) \o " " \o JoinHeaderText(Tail(cells))

\* the table's header row has roster-like column names
HasRosterHeaders(table) ==
    /\ TableHeaderRow(table) # <<>>
    /\ LET header_text == JoinHeaderText(TableHeaderRow(table)[1].cells)
       IN  /\ Contains(header_text, "name")
           /\ Contains(header_text, "position") \/ Contains(header_text, "pos")

\* the if/elif chain of the header loop of _extract_players_from_table
TableField(header) ==
    LET header_text == Lower(Strip(CellText(header)))
        Has(x) == Contains(header_text, x)
    IN  IF Has("name") /\ ~Has("first") THEN "name"
        ELSE IF Has("no") \/ Has("#") \/ Has("jersey") \/ Has("number") \/ Has("num")
             THEN "jersey"
        ELSE IF Has("pos") THEN "position"
        ELSE IF Has("ht") \/ Has("height") THEN "height"
        ELSE IF Has("yr") \/ Has("year") \/ Has("class") THEN "year"
        ELSE IF Has("hometown") \/ Has("home") THEN "hometown"
        ELSE IF Has("high school") \/ Has("highschool") THEN "high_school"
        ELSE IF Has("previous") THEN "previous_school"
        ELSE ""

TableFields ==
    {"name", "jersey", "position", "height", "year", "hometown", "high_school",
     "previous_school"}

\* the body of the row loop of _extract_players_from_table: cells[header_map[f]]
\* is not guarded, so a mapped column beyond the row raises IndexError and the
\* row is skipped by the except clause
TableRowBody(row, header_map, ctx, domain) ==
    LET cells == row.cells
        H(field) == header_map[field]
        In(field) == H(field) >= 0
        Cell(field) == cells[H(field) + 1]
        IndexError == \E f \in TableFields : In(f) /\ H(f) >= Len(cells)
        named == IF In("name") THEN NameFromCell(Cell("name"), domain) ELSE <<"", "">>
        home == IF In("hometown")
                THEN SplitHometown(clean_text(CellText(Cell("hometown"))))
                ELSE <<"", "">>
    IN  IF Len(cells) < 3 THEN <<>>
        ELSE IF IndexError THEN <<>>
        ELSE IF named[1] = "" \/ Lower(named[1]) = "null" THEN <<>>
        ELSE <<Player(ctx.team_id, ctx.team_name, ctx.season, ctx.division,
                  named[1],
                  IF In("jersey") THEN clean_text(CellText(Cell("jersey"))) ELSE "",
                  IF In("position") THEN extract_position(CellText(Cell("position")))
                  ELSE "",
                  IF In("height") THEN extract_height(CellText(Cell("height"))) ELSE "",
                  IF In("year") THEN normalize_academic_year(CellText(Cell("year")))
                  ELSE "",
                  "", home[1],
                  IF In("high_school") THEN clean_text(CellText(Cell("high_school")))
                  ELSE home[2],
                  IF In("previous_school")
                  THEN clean_text(CellText(Cell("previous_school"))) ELSE "",
                  named[2])>>

TableRowEntry(row, header_map, ctx, domain) ==
    IF row.fault THEN <<>> ELSE TableRowBody(row, header_map, ctx, domain)

HasSidearmRow(table) == SelectSeq(AllRows(table), IsSidearmRow) # <<>>

_extract_players_from_table(html, ctx) ==
    LET sidearm_tables == SelectSeq(html.tables, HasSidearmRow)
        generic_tables == SelectSeq(html.tables, HasRosterHeaders)
        is_generic_table == sidearm_tables = <<>>
        domain == DomainOf(ctx.base_url)
    IN  IF sidearm_tables = <<>> /\ generic_tables = <<>> THEN <<>>
        ELSE LET roster_table == IF is_generic_table THEN generic_tables[1]
                                 ELSE sidearm_tables[1]
                 headers == IF is_generic_table
                            THEN TableHeaderRow(roster_table)[1].cells
                            ELSE SelectSeq(CellsOf(AllRows(roster_table)), IsSidearmHeader)
                 all_rows == AllRows(roster_table)
                 table_rows == IF ~is_generic_table THEN SelectSeq(all_rows, IsSidearmRow)
                               ELSE IF roster_table.has_tbody THEN roster_table.body_rows
                               ELSE IF Len(all_rows) > 1 THEN Tail(all_rows) ELSE <<>>
             IN  IF headers = <<>> THEN <<>>
                 ELSE Flatten([k \in 1..Len(table_rows) |->
                                TableRowEntry(table_rows[k],
                                    HeaderMap([h \in 1..Len(headers) |-> TableField(headers[h])]),
                                    ctx, domain)])

IsLabelledTd(cell) == cell.tag = "td" /\ cell.data_label # <<>>

IsLabelledTh(cell) == cell.tag = "th" /\ cell.data_label # <<>>

\* a dict as the sequence of its assignments <<key, value>>: the last
\* assignment to a key is its value
DictGet(data, key, default) ==
    IF \E k \in 1..Len(data) : data[k][1] = key
    THEN data[Max({k \in 1..Len(data) : data[k][1] = key})][2]
    ELSE default

\* cell.get('data-label', '').strip().lower()
PrestoLabel(cell) == Lower(Strip(cell.data_label[1]))

\* the value the name header stores in data: the text of its first link with
\* text, or else its own text
RECURSIVE PrestoHeaderValue(_, _)
PrestoHeaderValue(links, name_header) ==
    IF links = <<>> THEN clean_text(CellText(name_header))
    ELSE IF clean_text(Head(links).text) # "" THEN clean_text(Head(links).text)
    ELSE PrestoHeaderValue(Tail(links), name_header)

\* the assignments "data[label] = value" of the loop over cells_with_labels
PrestoCellData(cells_with_labels) ==
    [k \in 1..Len(cells_with_labels) |->
        <<PrestoLabel(cells_with_labels[k]), clean_text(cells_with_labels[k].text)>>]

\* the assignment the name header adds
PrestoHeaderData(name_headers) ==
    IF name_headers = <<>> THEN <<>>
    ELSE <<<<PrestoLabel(name_headers[1]),
             PrestoHeaderValue(name_headers[1].links, name_headers[1])>>>>

\* the data dict of one row
PrestoData(row) ==
    PrestoCellData(SelectSeq(row.cells, IsLabelledTd))
        \o PrestoHeaderData(SelectSeq(row.cells, IsLabelledTh))

\* data.get(k1, data.get(k2, data.get(k3, ''))) for keys = <<k1, k2, k3>>
RECURSIVE PrestoGet(_, _)
PrestoGet(data, keys) ==
    IF keys = <<>> THEN ""
    ELSE DictGet(data, Head(keys), PrestoGet(data, Tail(keys)))

\* the link the profile URL of a presto row is taken from: << >> or <<link>>
PrestoNameLink(row, data, name) ==
    LET cells_with_labels == SelectSeq(row.cells, IsLabelledTd)
        name_headers == SelectSeq(row.cells, IsLabelledTh)
        IsNameCell(cell) ==
            DictGet(data, PrestoLabel(cell), "") = name /\ cell.links # <<>>
        hits == SelectSeq(cells_with_labels, IsNameCell)
    IN  IF name_headers # <<>>
        THEN IF name_headers[1].links = <<>> THEN <<>>
             ELSE <<name_headers[1].links[1]>>
        ELSE IF hits = <<>> THEN <<>> ELSE <<hits[1].links[1]>>

\* the row loop of _extract_players_from_presto_table from "Map data-label
\* values to player fields" on
PrestoRowPlayer(row, data, ctx) ==
    LET name == PrestoGet(data, <<"name">>)
        hometown_raw == PrestoGet(data, <<"hometown/last school", "hometown",
                                          "hometown/high school">>)
        high_school0 == PrestoGet(data, <<"high school", "last school">>)
        parts == Split(hometown_raw, "/")
        combined == hometown_raw # "" /\ Contains(hometown_raw, "/")
        name_link == PrestoNameLink(row, data, name)
        href == IF name_link # <<>> /\ name_link[1].href # <<>>
                THEN name_link[1].href[1] ELSE ""
    IN  IF name = "" THEN <<>>
        ELSE <<Player(ctx.team_id, ctx.team_name, ctx.season, ctx.division,
                  name,
                  PrestoGet(data, <<"no.", "no", "#">>),
                  PrestoGet(data, <<"pos.", "pos", "position">>),
                  extract_height(PrestoGet(data, <<"ht.", "ht", "height">>)),
                  normalize_academic_year(PrestoGet(data, <<"cl.", "class", "year">>)),
                  "",
                  IF combined THEN Strip(parts[1]) ELSE hometown_raw,
                  IF combined /\ high_school0 = "" THEN Strip(parts[2])
                  ELSE high_school0,
                  PrestoGet(data, <<"previous school", "last school">>),
                  IF href = "" THEN ""
                  ELSE IF StartsWith(href, "http") THEN href
                  ELSE extract_base_url(ctx.base_url) \o href)>>

\* the body of the row loop of _extract_players_from_presto_table
PrestoRowBody(row, ctx) ==
    IF Len(SelectSeq(row.cells, IsLabelledTd)) < 3 THEN <<>>
    ELSE PrestoRowPlayer(row, PrestoData(row), ctx)

PrestoRowEntry(row, ctx) == IF row.fault THEN <<>> ELSE PrestoRowBody(row, ctx)

_extract_players_from_presto_table(html, ctx) ==
    LET rows == Flatten([k \in 1..Len(html.tables) |-> AllRows(html.tables[k])])
    IN  Flatten([k \in 1..Len(rows) |-> PrestoRowEntry(rows[k], ctx)])

\* ------------------------------------------------------------------------
\* StandardScraper._extract_players: the format dispatch
\* ------------------------------------------------------------------------
\* a table whose class attribute contains 'table'
HasTableClass(table) == Contains(table.classes, "table")

IsKentuckyTable(table) == table.id = "players-table__general"

IsRosterClassTable(table) == Contains(table.classes, "table--roster")

\* html.find_all('td', attrs={'data-label': True})
PrestoCells(html) ==
    SelectSeq(Flatten([k \in 1..Len(html.tables) |-> CellsOf(AllRows(html.tables[k]))]),
           IsLabelledTd)

\* a dispatch that looks for sidearm-roster-list-item before
\* sidearm-roster-player
DispatchListItemsFirst(html) ==
    IF html.list_items # <<>> THEN "list_item"
    ELSE IF html.roster_players # <<>> THEN "roster_player"
    ELSE "table"

\* the name of the extractor _extract_players runs on a document
Dispatch(html) ==
    IF html.roster_players # <<>> THEN "roster_player"
    ELSE IF html.list_items # <<>> THEN "list_item"
    ELSE IF /\ SelectSeq(html.tables, HasTableClass) # <<>>
            /\ HasDataFieldHeader(SelectSeq(html.tables, HasTableClass)[1])
         THEN "data_field"
    ELSE IF html.mod_roster # <<>> /\ html.mod_roster # <<0>> THEN "mod_roster"
    ELSE IF SelectSeq(html.tables, IsKentuckyTable) # <<>> THEN "kentucky"
    ELSE IF PrestoCells(html) # <<>> THEN "presto"
    ELSE IF html.cards # <<>> THEN "cards"
    ELSE IF html.wmt_items # <<>> THEN "wmt"
    ELSE IF html.wp_items # <<>> THEN "wordpress"
    ELSE IF SelectSeq(html.tables, IsRosterClassTable) # <<>> THEN "table_roster"
    ELSE "table"

\* the extractor of a template applied to the document
ExtractWith(template, html, ctx) ==
    CASE template = "roster_player" -> ExtractSidearmPlayers(html, ctx)
      [] template = "list_item" -> _extract_players_from_list_items(html, ctx)
      [] template = "data_field" -> _extract_players_from_data_field_table(html, ctx)
      [] template = "mod_roster" -> _extract_players_from_generic_roster_table(html, ctx)
      [] template = "kentucky" -> _extract_players_from_kentucky_table(html, ctx)
      [] template = "presto" -> _extract_players_from_presto_table(html, ctx)
      [] template = "cards" -> _extract_players_from_cards(html, ctx)
      [] template = "wmt" -> _extract_players_from_wmt(html, ctx)
      [] template = "wordpress" -> _extract_players_from_wordpress_roster(html, ctx)
      [] OTHER -> _extract_players_from_table(html, ctx)

_extract_players(html, ctx) == ExtractWith(Dispatch(html), html, ctx)

\* ------------------------------------------------------------------------
\* JSScraper._validate_players
\* ------------------------------------------------------------------------
RECURSIVE FieldCount(_, _)
\* field_counts[field] after the loop over the players
FieldCount(players, field) ==
    IF players = <<>> THEN 0
    ELSE (IF Head(players)[field] # "" THEN 1 ELSE 0) + FieldCount(Tail(players), field)

\* a variant of CoverageBelow that also rejects coverage equal to the threshold
CoverageNotAbove(players, field, percent) ==
    FieldCount(players, field) * 100 <= percent * Len(players)

\* "coverage[field] < percent" with coverage = count / total * 100: the float
\* comparison agrees with the comparison of the cross products
CoverageBelow(players, field, percent) ==
    FieldCount(players, field) * 100 < percent * Len(players)

_validate_players(players) ==
    IF players = <<>> THEN FALSE
    ELSE IF CoverageBelow(players, "name", 80) THEN FALSE
    ELSE IF CoverageBelow(players, "jersey", 80) THEN FALSE
    ELSE IF CoverageBelow(players, "position", 70) THEN FALSE
    ELSE IF CoverageBelow(players, "year", 70) THEN FALSE
    ELSE TRUE

\* ------------------------------------------------------------------------
\* StandardScraper._enhance_kentucky_player_data
\* ------------------------------------------------------------------------
\* The outcome of requests.get(player.url) and of parsing the bio page is a
\* record [kind, status, info_list]: kind "exception" (the request or the
\* parsing raises) or "response"; info_list is << >> (no ul.player-info__list)
\* or <<items>>, an item being [label, value] with the texts of its
\* player-info__label and player-info__value spans, << >> for a missing span.

RECURSIVE ApplyInfoItems(_, _)
\* the loop over the <li> of the info list
ApplyInfoItems(player, items) ==
    IF items = <<>> THEN player
    ELSE LET item == Head(items)
             label == Lower(Strip(item.label[1]))
             value == Strip(item.value[1])
             updated ==
                 IF item.label = <<>> \/ item.value = <<>> THEN player
                 ELSE IF Contains(label, "hometown")
                      THEN [player EXCEPT !.hometown = value]
                 ELSE IF Contains(label, "high school")
                      THEN [player EXCEPT !.high_school = value]
                 ELSE IF Contains(label, "class")
                      THEN [player EXCEPT !.year = normalize_academic_year(value)]
                 ELSE player
         IN  ApplyInfoItems(updated, Tail(items))

\* a variant of EnhanceOne that appends nothing when the fetch fails
EnhanceOneDroppingFailures(player, bio) ==
    IF player.url = "" THEN <<player>>
    ELSE IF bio.kind = "exception" THEN <<>>
    ELSE IF bio.status # 200 THEN <<>>
    ELSE IF bio.info_list = <<>> THEN <<player>>
    ELSE <<ApplyInfoItems(player, bio.info_list[1])>>

\* the body of the loop over the players: what is appended to enhanced_players
EnhanceOne(player, bio) ==
    IF player.url = "" THEN <<player>>
    ELSE IF bio.kind = "exception" THEN <<player>>
    ELSE IF bio.status # 200 THEN <<player>>
    ELSE IF bio.info_list = <<>> THEN <<player>>
    ELSE <<ApplyInfoItems(player, bio.info_list[1])>>

\* bios[k] is the outcome of the bio page fetch of players[k]
_enhance_kentucky_player_data(players, bios) ==
    IF players = <<>> THEN players
    ELSE IF players[1].url = "" \/ ~Contains(players[1].url, "ukathletics.com")
         THEN players
    ELSE Flatten([k \in 1..Len(players) |-> EnhanceOne(players[k], bios[k])])

\* one request of a URL, with its outcome
Fetch(role, url, outcome) == [role |-> role, url |-> url, outcome |-> outcome]

\* a variant of BioFetches that requests the bio pages from the last player to
\* the first
BioFetchesLastFirst(players, bios) ==
    IF players = <<>> THEN <<>>
    ELSE IF players[1].url = "" \/ ~Contains(players[1].url, "ukathletics.com")
         THEN <<>>
    ELSE Flatten([k \in 1..Len(players) |->
                     LET n == Len(players) + 1 - k
                     IN  IF players[n].url = "" THEN <<>>
                         ELSE <<Fetch("bio", players[n].url, bios[n])>>])

\* the requests of _enhance_kentucky_player_data in the order of its loop:
\* requests.get(player.url) for each player with a url, once the first player
\* has a Kentucky url
BioFetches(players, bios) ==
    IF players = <<>> THEN <<>>
    ELSE IF players[1].url = "" \/ ~Contains(players[1].url, "ukathletics.com")
         THEN <<>>
    ELSE Flatten([k \in 1..Len(players) |->
                     IF players[k].url = "" THEN <<>>
                     ELSE <<Fetch("bio", players[k].url, bios[k])>>])

\* ------------------------------------------------------------------------
\* Input documents of the checked runs
\* ------------------------------------------------------------------------
\* the sequences over S of length at most n
SeqsUpTo(S, n) == UNION {[1..k -> S] : k \in 0..n}

EmptyDoc ==
    [roster_players |-> <<>>, list_items |-> <<>>, tables |-> <<>>,
     mod_roster |-> <<>>, cards |-> <<>>, wmt_items |-> <<>>, wp_items |-> <<>>]

Link(href, text) == [href |-> href, text |-> text]

\* li.sidearm-roster-player elements
SidearmItem(jersey, heading, links, fault) ==
    [jersey |-> jersey, heading |-> heading, links |-> links,
     position |-> <<"Forward">>, height |-> <<"6-2">>, year |-> <<"Jr.">>,
     major |-> <<>>, hometown |-> <<"Austin, Texas">>, highschool |-> <<>>,
     previous |-> <<>>, fault |-> fault]

SidearmItems ==
    {SidearmItem(<<"7">>, <<"Sam Lee">>, <<Link(<<"/roster/sam-lee">>, "Sam Lee")>>, FALSE),
     SidearmItem(<<"10">>, <<"Ali Khan">>, <<Link(<<"roster/ali-khan">>, "Ali Khan")>>, FALSE),
     SidearmItem(<<"9">>, <<"">>, <<>>, FALSE),
     SidearmItem(<<"5">>, <<"Joe Diaz">>, <<>>, TRUE)}

\* li.sidearm-roster-list-item elements
ListItem(link_elem, number, name_elem, links, fault) ==
    [link_elem |-> link_elem, photo_number |-> number, name_elem |-> name_elem,
     links |-> links, position |-> <<"Position: Midfielder">>, year |-> <<"So.">>,
     height |-> <<"5'11\"">>, hometown |-> <<"Reno, Nev.">>,
     highschool |-> <<"Reno HS (Nevada State)">>, previous |-> <<>>, fault |-> fault]

ListItems ==
    {ListItem(TRUE, <<[span |-> <<"8">>, text |-> "#8"]>>, <<"Max Roy">>,
              <<Link(<<"https://x.edu/roster/max-roy">>, "Max Roy")>>, FALSE),
     ListItem(TRUE, <<>>, <<"Ben Ito">>, <<Link(<<"roster/ben-ito">>, "Ben Ito")>>, FALSE),
     ListItem(TRUE, <<>>, <<"Name:">>, <<>>, FALSE),
     ListItem(TRUE, <<>>, <<"Lou Orr">>, <<>>, TRUE)}

\* div.s-person-card elements
Card(name_elem, thumbnail, links, fault) ==
    [name_elem |-> name_elem, thumbnail |-> thumbnail,
     bio_stats |-> <<"Position F", "Academic Year Sr.", "Height 6'1\"">>,
     location_items |-> <<"Hometown Bend, Ore.", "Last School Bend HS">>,
     links |-> links, fault |-> fault]

Cards ==
    {Card(<<"Ian Fox">>, <<"Jersey Number 3">>, <<Link(<<"/roster/ian-fox">>, "Full Bio")>>,
          FALSE),
     Card(<<"Roy Kim">>, <<"Jersey Number 11">>, <<Link(<<"roster/roy-kim">>, "Full Bio")>>,
          FALSE),
     Card(<<" ">>, <<"Jersey Number 2">>, <<>>, FALSE),
     Card(<<"Al Poe">>, <<"Jersey Number 6">>, <<>>, TRUE)}

\* div.roster__item elements
WmtItem(name_content, image_div, links, fault) ==
    [name_content |-> name_content, image_div |-> image_div, number_span |-> <<"12">>,
     links |-> links, title |-> <<>>, info_p |-> <<"Defender - 6-0">>,
     description |-> <<>>, fault |-> fault]

WmtItems ==
    {WmtItem(<<"Dan Cho">>, <<[span |-> <<"1">>,
                              links |-> <<Link(<<"/roster/dan-cho">>, "")>>]>>,
             <<>>, FALSE),
     WmtItem(<<"Eli Roe">>, <<>>, <<Link(<<"roster/eli-roe">>, "Eli Roe")>>, FALSE),
     WmtItem(<<" ">>, <<>>, <<>>, FALSE),
     WmtItem(<<"Gus Lim">>, <<>>, <<>>, TRUE)}

\* li.person__item elements
WpItem(number, name_elem, fault) ==
    [number |-> number, name_elem |-> name_elem, subtitle |-> <<<<"6'0\"">>>>,
     meta |-> <<<<[name |-> <<"Position:">>,
                  value |-> <<[text |-> "Goalkeeper", has_links |-> FALSE]>>],
                 [name |-> <<"Year:">>,
                  value |-> <<[text |-> "Freshman", has_links |-> FALSE]>>]>>>>,
     fault |-> fault]

WpItems ==
    {WpItem(<<"#21">>, <<[custom_value |-> <<"Hal Day">>, href |-> <<"/roster/hal-day">>]>>,
            FALSE),
     WpItem(<<"22">>, <<[custom_value |-> <<"Jay Ode">>, href |-> <<"roster/jay-ode">>]>>,
            FALSE),
     WpItem(<<"23">>, <<[custom_value |-> <<>>, href |-> <<>>]>>, FALSE),
     WpItem(<<"24">>, <<[custom_value |-> <<"Lee Ame">>, href |-> <<>>]>>, TRUE)}

\* td and th elements
TableCell(tag, text, links, data_label) ==
    [tag |-> tag, text |-> text, label_span |-> <<>>, links |-> links,
     data_label |-> data_label, data_field_label |-> <<>>, button |-> <<>>,
     sidearm |-> FALSE]

\* the header cells of the four columns No., Name, Pos., Ht. in the styles of
\* the table templates: "plain", "data_field", "button" or "sidearm"
HeaderCell(text, style) ==
    [TableCell("th", IF style = "button" THEN "" ELSE text, <<>>, <<>>) EXCEPT
        !.data_field_label = IF style = "data_field" THEN <<text>> ELSE <<>>,
        !.button = IF style = "button"
                   THEN <<[aria_label |-> "Sort by " \o text, text |-> text]>>
                   ELSE <<>>,
        !.sidearm = (style = "sidearm")]

HeaderRow(style) ==
    [cells |-> <<HeaderCell("No.", style), HeaderCell("Name", style),
                 HeaderCell("Pos.", style), HeaderCell("Ht.", style)>>,
     sidearm |-> FALSE, fault |-> FALSE]

\* a roster row: the number, the name cell and n - 2 further cells; labelled
\* rows carry data-label attributes and a span.label in the number cell
RosterRow(number, name, links, n, labelled, sidearm, fault) ==
    LET Lab(text) == IF labelled THEN <<text>> ELSE <<>>
        all == <<[TableCell("td", number, <<>>, Lab("No.")) EXCEPT
                     !.label_span = Lab("No.:")],
                 TableCell(IF labelled THEN "th" ELSE "td", name, links, Lab("Name")),
                 TableCell("td", "GK", <<>>, Lab("Pos.")),
                 TableCell("td", "6-3", <<>>, Lab("Ht."))>>
    IN  [cells |-> SubSeq(all, 1, n), sidearm |-> sidearm, fault |-> fault]

RosterRows(labelled, sidearm) ==
    {RosterRow("7", "Sam Lee", <<Link(<<"/roster/sam-lee">>, "Sam Lee")>>, 4,
               labelled, sidearm, FALSE),
     RosterRow("10", "Ali Khan", <<Link(<<"roster/ali-khan">>, "Ali Khan")>>, 4,
               labelled, sidearm, FALSE),
     RosterRow("14", "", <<>>, 4, labelled, sidearm, FALSE),
     RosterRow("16", "Ned Oya", <<>>, 4, labelled, sidearm, TRUE)}

\* the row with another text in its position cell
WithPosition(row, text) == [row EXCEPT !.cells[3].text = text]

\* rows of the less common shapes: a name without a link, a row that lacks the
\* last column, and positions written out
EdgeRows(labelled, sidearm) ==
    {<<RosterRow("13", "Joe Diaz", <<>>, 4, labelled, sidearm, FALSE),
       RosterRow("7", "Sam Lee", <<Link(<<"/roster/sam-lee">>, "Sam Lee")>>, 4,
                 labelled, sidearm, FALSE)>>,
     <<RosterRow("15", "Vic Paz", <<Link(<<"/roster/vic-paz">>, "Vic Paz")>>, 3,
                 labelled, sidearm, FALSE),
       RosterRow("10", "Ali Khan", <<Link(<<"roster/ali-khan">>, "Ali Khan")>>, 4,
                 labelled, sidearm, FALSE)>>,
     <<WithPosition(RosterRow("1", "Max Orr", <<>>, 4, labelled, sidearm, FALSE),
                    "Goalkeeper"),
       WithPosition(RosterRow("8", "Ty Uhl", <<>>, 4, labelled, sidearm, FALSE),
                    "Mid")>>}

Table(id, classes, head_rows, has_tbody, body_rows) ==
    [id |-> id, classes |-> classes, has_thead |-> head_rows # <<>>,
     head_rows |-> head_rows, has_tbody |-> has_tbody, body_rows |-> body_rows]

\* the table templates, each over the rows of its body
TableDocs(rows) ==
    {[EmptyDoc EXCEPT !.tables =
          <<Table("", "table table-striped", <<HeaderRow("data_field")>>, TRUE, rows)>>],
     [EmptyDoc EXCEPT !.mod_roster = <<1>>, !.tables =
          <<Table("", "roster", <<HeaderRow("button")>>, TRUE, rows)>>],
     [EmptyDoc EXCEPT !.tables =
          <<Table("players-table__general", "display", <<HeaderRow("plain")>>, TRUE,
                  rows)>>],
     [EmptyDoc EXCEPT !.tables =
          <<Table("", "table--roster", <<HeaderRow("plain")>>, TRUE, rows)>>],
     [EmptyDoc EXCEPT !.tables =
          <<Table("", "", <<>>, FALSE, <<HeaderRow("plain")>> \o rows)>>]}

SidearmTableDoc(rows) ==
    [EmptyDoc EXCEPT !.tables =
        <<Table("", "s-table", <<HeaderRow("sidearm")>>, TRUE, rows)>>]

PrestoDoc(rows) ==
    [EmptyDoc EXCEPT !.tables = <<Table("", "", <<HeaderRow("plain")>>, TRUE, rows)>>]

\* documents in which no template marker matches
MarkerlessDocs ==
    {EmptyDoc,
     [EmptyDoc EXCEPT !.mod_roster = <<0>>],
     [EmptyDoc EXCEPT !.tables =
          <<Table("", "schedule", <<>>, FALSE,
                  <<[cells |-> <<TableCell("th", "Date", <<>>, <<>>),
                                 TableCell("th", "Opponent", <<>>, <<>>),
                                 TableCell("th", "Result", <<>>, <<>>)>>,
                     sidearm |-> FALSE, fault |-> FALSE],
                    [cells |-> <<TableCell("td", "Sept. 1", <<>>, <<>>),
                                 TableCell("td", "Navy", <<>>, <<>>),
                                 TableCell("td", "W 2-1", <<>>, <<>>)>>,
                     sidearm |-> FALSE, fault |-> FALSE]>>)>>]}

\* documents with entries of the less common shapes
EdgeDocs ==
    {[EmptyDoc EXCEPT !.roster_players =
          <<SidearmItem(<<"4">>, <<>>, <<>>, FALSE),
            SidearmItem(<<"7">>, <<"Sam Lee">>, <<>>, FALSE)>>],
     [EmptyDoc EXCEPT !.list_items =
          <<ListItem(FALSE, <<>>, <<"Tom Ray">>, <<>>, FALSE),
            ListItem(TRUE, <<>>, <<"Ben Ito">>, <<>>, FALSE)>>],
     [EmptyDoc EXCEPT !.cards =
          <<Card(<<"Staff">>, <<>>, <<>>, FALSE),
            Card(<<"Ian Fox">>, <<"Jersey Number 3">>, <<>>, FALSE)>>],
     [EmptyDoc EXCEPT !.wmt_items =
          <<WmtItem(<<>>, <<>>, <<>>, FALSE),
            WmtItem(<<"Eli Roe">>, <<>>, <<>>, FALSE)>>],
     [EmptyDoc EXCEPT !.wp_items =
          <<WpItem(<<>>, <<[custom_value |-> <<"Kai Ude">>, href |-> <<>>]>>, FALSE),
            WpItem(<<"22">>, <<[custom_value |-> <<"Jay Ode">>, href |-> <<>>]>>,
                   FALSE)>>]}
    \cup UNION {TableDocs(rows) : rows \in EdgeRows(FALSE, FALSE)}
    \cup {SidearmTableDoc(rows) : rows \in EdgeRows(FALSE, TRUE)}
    \cup {PrestoDoc(rows) : rows \in EdgeRows(TRUE, FALSE)}

\* documents with the markers of several templates
MixedDocs ==
    {[EmptyDoc EXCEPT
         !.roster_players = <<SidearmItem(<<"5">>, <<"Joe Diaz">>, <<>>, TRUE)>>,
         !.list_items = <<ListItem(TRUE, <<>>, <<"Ben Ito">>,
                                   <<Link(<<"roster/ben-ito">>, "Ben Ito")>>, FALSE)>>],
     [EmptyDoc EXCEPT
         !.cards = <<Card(<<"Al Poe">>, <<"Jersey Number 6">>, <<>>, TRUE)>>,
         !.wp_items = <<WpItem(<<"22">>, <<[custom_value |-> <<"Jay Ode">>,
                                            href |-> <<"roster/jay-ode">>]>>, FALSE)>>],
     [EmptyDoc EXCEPT
         !.mod_roster = <<2>>,
         !.tables =
             <<Table("players-table__general", "display", <<HeaderRow("plain")>>, TRUE,
                     <<RosterRow("7", "Sam Lee", <<Link(<<"/roster/sam-lee">>, "Sam Lee")>>,
                                 4, FALSE, FALSE, FALSE)>>),
               Table("", "roster", <<HeaderRow("button")>>, TRUE,
                     <<RosterRow("10", "Ali Khan",
                                 <<Link(<<"roster/ali-khan">>, "Ali Khan")>>,
                                 4, FALSE, FALSE, FALSE)>>)>>],
     [EmptyDoc EXCEPT
         !.roster_players =
             <<SidearmItem(<<"7">>, <<"Sam Lee">>,
                           <<Link(<<"/roster/sam-lee">>, "Sam Lee")>>, FALSE)>>,
         !.tables =
             <<Table("", "", <<HeaderRow("plain")>>, TRUE,
                     <<RosterRow("10", "Ali Khan", <<>>, 4, TRUE, FALSE, FALSE)>>)>>,
         !.cards = <<Card(<<"Ian Fox">>, <<"Jersey Number 3">>, <<>>, FALSE)>>,
         !.wmt_items = <<WmtItem(<<"Eli Roe">>, <<>>, <<>>, FALSE)>>,
         !.wp_items = <<WpItem(<<"22">>, <<[custom_value |-> <<"Jay Ode">>,
                                            href |-> <<>>]>>, FALSE)>>]}

\* the documents of the checked runs: every template with up to MaxEntries entries
Documents ==
    {[EmptyDoc EXCEPT !.roster_players = e] : e \in SeqsUpTo(SidearmItems, MaxEntries)}
    \cup {[EmptyDoc EXCEPT !.list_items = e] : e \in SeqsUpTo(ListItems, MaxEntries)}
    \cup {[EmptyDoc EXCEPT !.cards = e] : e \in SeqsUpTo(Cards, MaxEntries)}
    \cup {[EmptyDoc EXCEPT !.wmt_items = e] : e \in SeqsUpTo(WmtItems, MaxEntries)}
    \cup {[EmptyDoc EXCEPT !.wp_items = e] : e \in SeqsUpTo(WpItems, MaxEntries)}
    \cup UNION {TableDocs(rows) : rows \in SeqsUpTo(RosterRows(FALSE, FALSE), MaxEntries)}
    \cup {SidearmTableDoc(rows) : rows \in SeqsUpTo(RosterRows(FALSE, TRUE), MaxEntries)}
    \cup {PrestoDoc(rows) : rows \in SeqsUpTo(RosterRows(TRUE, FALSE), MaxEntries)}
    \cup MarkerlessDocs \cup EdgeDocs \cup MixedDocs

\* the team contexts of the checked runs
Contexts ==
    {[team_id |-> 742, team_name |-> "Virginia Tech", season |-> "2025",
      division |-> "I", base_url |-> "https://hokiesports.com/sports/mens-soccer"],
     [team_id |-> 2, team_name |-> "Adelphi", season |-> "2025",
      division |-> "II", base_url |-> "https://www.aupanthers.com/sports/msoc/index"]}

\* a player with the given essential fields
PlayerWith(name, jersey, position, year) ==
    Player(2, "Adelphi", "2025", "II", name, jersey, position, "", year, "", "", "",
           "", "")

\* n copies of a player
Repeat(player, n) == [k \in 1..n |-> player]

\* the player lists _validate_players is checked on: up to MaxPlayers players,
\* each complete or lacking one essential field
ValidationInputs ==
    {Repeat(PlayerWith("Sam Lee", "7", "F", "Junior"), n[1])
        \o Repeat(PlayerWith("", "8", "M", "Senior"), n[2])
        \o Repeat(PlayerWith("Ali Khan", "", "D", "Freshman"), n[3])
        \o Repeat(PlayerWith("Joe Diaz", "10", "", "Sophomore"), n[4])
        \o Repeat(PlayerWith("Vic Paz", "11", "GK", ""), n[5]) :
        n \in {m \in [1..5 -> 0..MaxPlayers] :
                  m[1] + m[2] + m[3] + m[4] + m[5] <= MaxPlayers}}

\* a Kentucky player as the roster table gives it, with the URL of its bio page
KentuckyPlayer(name, url) ==
    Player(334, "Kentucky", "2025", "I", name, "9", "F", "6-1", "", "", "", "", "", url)

KentuckyPlayers ==
    {KentuckyPlayer("Sam Lee", "https://ukathletics.com/sports/msoc/roster/sam-lee/"),
     KentuckyPlayer("Ali Khan", "https://ukathletics.com/sports/msoc/roster/ali-khan/"),
     KentuckyPlayer("Joe Diaz", ""),
     KentuckyPlayer("Vic Paz", "https://example.com/roster/vic-paz")}

InfoItem(label, value) == [label |-> label, value |-> value]

\* the outcomes of a bio page fetch
BioOutcomes ==
    {[kind |-> "exception", status |-> 0, info_list |-> <<>>],
     [kind |-> "response", status |-> 404, info_list |-> <<>>],
     [kind |-> "response", status |-> 200, info_list |-> <<>>],
     [kind |-> "response", status |-> 200, info_list |->
          <<<<InfoItem(<<"Hometown">>, <<" Lexington, Ky. ">>),
              InfoItem(<<"High School">>, <<"Henry Clay">>),
              InfoItem(<<"Class">>, <<"Jr.">>)>>>>],
     [kind |-> "response", status |-> 200, info_list |->
          <<<<InfoItem(<<"Hometown">>, <<>>),
              InfoItem(<<"Major">>, <<"Biology">>)>>>>]}

\* the player lists of the enhancement runs, each with one bio outcome a player
EnhancementInputs ==
    UNION {{<<ps, bs>> : ps \in [1..n -> KentuckyPlayers], bs \in [1..n -> BioOutcomes]} :
              n \in 0..MaxEntries}

\* rows of teams.csv
TeamRow(ncaa_id, team, url, division) ==
    [ncaa_id |-> ncaa_id, team |-> team, url |-> url, division |-> division]

TeamRows ==
    {TeamRow("14", "Albany", "https://ualbanysports.com/sports/mens-soccer", "I"),
     TeamRow("186", "Dist. Columbia", "https://udcfirebirds.com/sports/msoc", "II"),
     TeamRow("334", "Kentucky", "https://ukathletics.com/sports/msoc", "I"),
     TeamRow("abc", "Unknown", "https://example.edu/sports/msoc", "III")}

\* the pages the team sites serve: a schedule, a roster
\* with every essential field, a roster without jersey numbers, a roster with
\* a heading that holds a field label only
WebDocs ==
    (MarkerlessDocs \ {EmptyDoc, [EmptyDoc EXCEPT !.mod_roster = <<0>>]})
    \cup {[EmptyDoc EXCEPT !.roster_players =
              <<SidearmItem(<<"7">>, <<"Sam Lee">>,
                            <<Link(<<"/roster/sam-lee">>, "Sam Lee")>>, FALSE),
                SidearmItem(<<"10">>, <<"Ali Khan">>, <<>>, FALSE)>>],
           [EmptyDoc EXCEPT !.roster_players =
              <<SidearmItem(<<>>, <<"Joe Diaz">>, <<>>, FALSE)>>],
           [EmptyDoc EXCEPT !.roster_players =
              <<SidearmItem(<<"3">>, <<"Class:">>, <<>>, FALSE),
                SidearmItem(<<"7">>, <<"Sam Lee">>, <<>>, FALSE)>>]}

\* the outcomes of session.get: an exception, or a response with its status
\* and, for 200, its page
GetOutcomes ==
    {[kind |-> "exception", status |-> 0, page |-> <<>>],
     [kind |-> "response", status |-> 404, page |-> <<>>],
     [kind |-> "response", status |-> 500, page |-> <<>>]}
    \cup {[kind |-> "response", status |-> 200, page |-> <<d>>] : d \in WebDocs}

\* the outcomes of _fetch_html_with_javascript: None, or the rendered page
RenderOutcomes ==
    {[kind |-> "none", status |-> 0, page |-> <<>>]}
    \cup {[kind |-> "rendered", status |-> 0, page |-> <<d>>] : d \in WebDocs}

\* ------------------------------------------------------------------------
\* The state
\* ------------------------------------------------------------------------
VARIABLES
    pc,                 \* the position of the run
    teams,              \* the argument of scrape_teams: the rows of teams.csv
    i,                  \* the number of teams the loop of scrape_teams completed
    scraper,            \* the scraper chosen for the team at hand: "std" or "js"
    ctx,                \* team_id, team_name, season, division, base_url of the call
    roster_url,         \* the local roster_url of scrape_team
    fetches,            \* the roster URL attempts of the scrape_team call so far
    html,               \* the parsed document at hand: << >> or <<document>>
    players,            \* the list of players at hand
    bios,               \* the outcomes of the bio page fetches of an enhancement
    returned,           \* << >>, or <<the value the operation returned>>
    all_players,        \* the local all_players of scrape_teams
    zero_player_teams,  \* RosterManager.zero_player_teams
    failed_teams,       \* RosterManager.failed_teams
    successful_teams,   \* RosterManager.successful_teams
    raised,             \* the exception that left scrape_teams, "" when none
    arg                 \* the argument of the function call at hand, "" when none

vars ==
    <<pc, teams, i, scraper, ctx, roster_url, fetches, html, players, bios, returned,
      all_players, zero_player_teams, failed_teams, successful_teams, raised, arg>>

managerVars ==
    <<teams, i, scraper, roster_url, fetches, all_players, zero_player_teams,
      failed_teams, successful_teams, raised>>

NoContext ==
    [team_id |-> 0, team_name |-> "", season |-> "", division |-> "", base_url |-> ""]

\* RosterManager.__init__, before scrape_teams is given its teams
ManagerInit ==
    /\ teams = <<>>
    /\ i = 0
    /\ scraper = ""
    /\ roster_url = ""
    /\ fetches = <<>>
    /\ all_players = <<>>
    /\ zero_player_teams = <<>>
    /\ failed_teams = <<>>
    /\ successful_teams = <<>>
    /\ raised = ""

\* ------------------------------------------------------------------------
\* _extract_players applied to a document
\* ------------------------------------------------------------------------
InitExtract ==
    /\ pc = "extract"
    /\ html \in {<<d>> : d \in Documents}
    /\ ctx \in Contexts
    /\ players = <<>>
    /\ bios = <<>>
    /\ returned = <<>>
    /\ ManagerInit
    /\ arg = ""

ExtractPlayers ==
    /\ pc = "extract"
    /\ players' = _extract_players(html[1], ctx)
    /\ pc' = "extracted"
    /\ UNCHANGED <<arg, html, ctx, bios, returned, managerVars>>

\* players_dicts = [p.to_dict() for p in players] of save_results
ToDict ==
    /\ pc = "extracted"
    /\ returned' = <<[k \in 1..Len(players) |-> to_dict(players[k])]>>
    /\ pc' = "to_dict"
    /\ UNCHANGED <<arg, html, ctx, players, bios, managerVars>>

NextExtract == ExtractPlayers \/ ToDict

SpecExtract == InitExtract /\ [][NextExtract]_vars

\* ------------------------------------------------------------------------
\* Claims about _extract_players
\* ------------------------------------------------------------------------
\* C1: every player _extract_players returns has a non-empty name, whichever
\* extractor produced it
C1_EveryPlayerNamed ==
    pc = "extracted" => \A k \in 1..Len(players) : players[k].name # ""

\* C13: every player _extract_players returns has a position among GK, D, M, F
\* or the empty string, whichever extractor produced it
C13_PositionNormalized ==
    pc = "extracted" =>
        \A k \in 1..Len(players) : players[k].position \in {"GK", "D", "M", "F", ""}

\* C19: to_dict gives every player a dictionary with exactly the fourteen keys
\* of the CSV schema, the class under class and the team id under ncaa_id, and
\* a string under every other key
C19_ToDictColumns ==
    pc = "to_dict" =>
        /\ Len(returned[1]) = Len(players)
        /\ \A k \in 1..Len(players) :
               /\ DOMAIN returned[1][k] =
                      {"ncaa_id", "team", "season", "division", "jersey", "name",
                       "position", "height", "class", "major", "hometown", "high_school",
                       "previous_school", "url"}
               /\ returned[1][k].ncaa_id = players[k].team_id
               /\ returned[1][k].class = clean_text(players[k].year)
               /\ \A key \in DOMAIN returned[1][k] \ {"ncaa_id"} :
                      returned[1][k][key] \in STRING

\* a player with a class is written out
C19_Witness ==
    /\ pc = "to_dict"
    /\ \E k \in 1..Len(players) :
           players[k].year # "" /\ returned[1][k].class = players[k].year

\* the entries of a sequence that raise no exception
NotFaulty(entry) == ~entry.fault

\* a document without the entries whose parsing raises an exception
DropFaulty(doc) ==
    [doc EXCEPT
        !.roster_players = SelectSeq(@, NotFaulty),
        !.list_items = SelectSeq(@, NotFaulty),
        !.cards = SelectSeq(@, NotFaulty),
        !.wmt_items = SelectSeq(@, NotFaulty),
        !.wp_items = SelectSeq(@, NotFaulty),
        !.tables = [t \in 1..Len(@) |->
                       [@[t] EXCEPT !.head_rows = SelectSeq(@, NotFaulty),
                                    !.body_rows = SelectSeq(@, NotFaulty)]]]

\* C8: an entry whose parsing raises an exception is skipped and nothing else
\* changes: the extractor returns what it returns for the document without the
\* raising entries, the records of the other entries in document order
C8_FaultyEntrySkipped ==
    (pc = "extracted" /\ Dispatch(DropFaulty(html[1])) = Dispatch(html[1]))
        => players = _extract_players(DropFaulty(html[1]), ctx)

\* a raising first entry (a card) followed by an entry whose record is returned
C8_Witness ==
    /\ pc = "extracted"
    /\ Len(html[1].cards) >= 2
    /\ html[1].cards[1].fault
    /\ Len(players) >= 1

\* every href of the <a> elements of a document
DocHrefs(doc) ==
    LET Hrefs(links) == {links[k].href[1] : k \in {j \in 1..Len(links) : links[j].href # <<>>}}
        Of(entries) == UNION {Hrefs(entries[k].links) : k \in 1..Len(entries)}
        rows == Flatten([t \in 1..Len(doc.tables) |-> AllRows(doc.tables[t])])
    IN  Of(doc.roster_players) \cup Of(doc.list_items) \cup Of(doc.cards)
        \cup Of(doc.wmt_items) \cup Of(CellsOf(rows))
        \cup UNION {Hrefs(doc.wmt_items[k].image_div[1].links) :
                       k \in {j \in 1..Len(doc.wmt_items) : doc.wmt_items[j].image_div # <<>>}}
        \cup UNION {{doc.wp_items[k].name_elem[1].href[1]} :
                       k \in {j \in 1..Len(doc.wp_items) :
                                /\ doc.wp_items[j].name_elem # <<>>
                                /\ doc.wp_items[j].name_elem[1].href # <<>>}}

\* the profile URL an href stands for: the href itself when absolute, otherwise
\* https://<domain>/<path> with one slash between the domain and the path
JoinedUrl(domain, href) ==
    IF StartsWith(href, "http") THEN href
    ELSE "https://" \o domain \o "/"
         \o (IF StartsWith(href, "/") THEN SubSeq(href, 2, Len(href)) ELSE href)

\* C10: the url of every returned player is empty or the absolute form of an
\* href of the document: the href itself when it starts with http, else
\* https://<team domain>/<path> with exactly one slash after the domain
C10_ProfileUrlWellFormed ==
    pc = "extracted" =>
        \A k \in 1..Len(players) :
            \/ players[k].url = ""
            \/ \E href \in DocHrefs(html[1]) :
                   players[k].url = JoinedUrl(DomainOf(ctx.base_url), href)

\* the templates of the chain after the dominant one, in the order of the
\* specification's checklist: the named results table stands before the
\* container class with a nested table
ChecklistOrder ==
    <<"list_item", "data_field", "kentucky", "mod_roster", "presto", "cards", "wmt",
      "wordpress", "table">>

\* the template's marker is present in the document; the generic table scan
\* needs none
MarkerPresent(template, doc) ==
    CASE template = "roster_player" -> doc.roster_players # <<>>
      [] template = "list_item" -> doc.list_items # <<>>
      [] template = "data_field" ->
             /\ SelectSeq(doc.tables, HasTableClass) # <<>>
             /\ HasDataFieldHeader(SelectSeq(doc.tables, HasTableClass)[1])
      [] template = "kentucky" -> SelectSeq(doc.tables, IsKentuckyTable) # <<>>
      [] template = "mod_roster" -> doc.mod_roster # <<>> /\ doc.mod_roster # <<0>>
      [] template = "presto" -> PrestoCells(doc) # <<>>
      [] template = "cards" -> doc.cards # <<>>
      [] template = "wmt" -> doc.wmt_items # <<>>
      [] template = "wordpress" -> doc.wp_items # <<>>
      [] OTHER -> TRUE

\* the templates whose extractor applies to the document
Applicable(doc) ==
    {template \in {"roster_player"} \cup {ChecklistOrder[k] : k \in 1..Len(ChecklistOrder)} :
        MarkerPresent(template, doc)}

\* C23: the page's result is empty only when every applicable extractor of the
\* chain found nothing: an extractor that returns nothing although its marker
\* is present is followed by the next check of the chain
C23_EmptyOnlyIfChainExhausted ==
    (pc = "extracted" /\ players = <<>>) =>
        \A template \in Applicable(html[1]) : ExtractWith(template, html[1], ctx) = <<>>

\* the first template of the checklist whose marker is present
FirstInChecklist(doc) ==
    ChecklistOrder[Min({k \in 1..Len(ChecklistOrder) : MarkerPresent(ChecklistOrder[k], doc)})]

\* C24: for a document without li.sidearm-roster-player the checks are applied
\* in the order list items, data-field headers, players-table__general,
\* mod-roster, data-label cells, cards, roster__item, person__item, generic
\* table, and the first that matches alone selects the extractor
C24_ChecklistOrder ==
    (pc = "extracted" /\ html[1].roster_players = <<>>) =>
        players = ExtractWith(FirstInChecklist(html[1]), html[1], ctx)

\* C25: a document with a li.sidearm-roster-player element is handled by the
\* dominant list-item extraction alone, whatever other markers it holds
C25_DominantShortCircuits ==
    (pc = "extracted" /\ html[1].roster_players # <<>>) =>
        /\ Dispatch(html[1]) = "roster_player"
        /\ players = ExtractSidearmPlayers(html[1], ctx)

\* the dominant extraction has run on a document that also holds a labelled
\* table, a card, a roster__item and a person__item
C25_Witness ==
    /\ pc = "extracted"
    /\ html[1].roster_players # <<>>
    /\ PrestoCells(html[1]) # <<>>
    /\ html[1].cards # <<>> /\ html[1].wmt_items # <<>> /\ html[1].wp_items # <<>>
    /\ Len(players) = 1
    /\ players[1].name = "Sam Lee"

\* the templates of the table extractors the claim names
TableTemplates == {"data_field", "mod_roster", "kentucky", "table_roster", "table"}

\* the body rows with a name link that end before the last header column
ShortRows(table) ==
    {k \in 1..Len(table.body_rows) :
        /\ ~table.body_rows[k].fault
        /\ Len(table.body_rows[k].cells) = 3
        /\ table.body_rows[k].cells[1].tag = "td"
        /\ FirstHref(table.body_rows[k].cells[2].links) # <<>>}

\* the player of a row that lacks the height column
ShortRowPlayer(row, player) ==
    /\ player.name = row.cells[2].links[1].text
    /\ player.jersey = row.cells[1].text
    /\ player.position = extract_position(row.cells[3].text)
    /\ player.height = ""

\* C26: in the table extractors a body row with fewer cells than the index of
\* a mapped column still gives a record when its name is found, the field of
\* the missing column being empty
C26_ShortRowKept ==
    (pc = "extracted" /\ Dispatch(html[1]) \in TableTemplates /\ Len(html[1].tables) = 1) =>
        \A k \in ShortRows(html[1].tables[1]) :
            \E n \in 1..Len(players) :
                ShortRowPlayer(html[1].tables[1].body_rows[k], players[n])

\* ------------------------------------------------------------------------
\* JSScraper._validate_players applied to a list of players
\* ------------------------------------------------------------------------
InitValidate ==
    /\ pc = "validate"
    /\ players \in ValidationInputs
    /\ html = <<>>
    /\ ctx = NoContext
    /\ bios = <<>>
    /\ returned = <<>>
    /\ ManagerInit
    /\ arg = ""

ValidatePlayers ==
    /\ pc = "validate"
    /\ returned' = <<_validate_players(players)>>
    /\ pc' = "validated"
    /\ UNCHANGED <<arg, html, ctx, players, bios, managerVars>>

NextValidate == ValidatePlayers

SpecValidate == InitValidate /\ [][NextValidate]_vars

\* the number of players with a non-empty value of the field
Having(field) == Cardinality({k \in 1..Len(players) : players[k][field] # ""})

\* C3: _validate_players returns True exactly when the list is not empty and
\* name and jersey are non-empty in at least 80% and position and year in at
\* least 70% of the players; coverage exactly at a threshold passes
C3_ValidateIsCoveragePolicy ==
    pc = "validated" =>
        (returned[1] <=>
            /\ Len(players) > 0
            /\ Having("name") * 100 >= 80 * Len(players)
            /\ Having("jersey") * 100 >= 80 * Len(players)
            /\ Having("position") * 100 >= 70 * Len(players)
            /\ Having("year") * 100 >= 70 * Len(players))

\* a list accepted with every coverage exactly at its threshold
C3_Witness ==
    /\ pc = "validated"
    /\ Len(players) = 10
    /\ Having("name") = 8
    /\ Having("jersey") = 8
    /\ Having("position") = 7
    /\ Having("year") = 7
    /\ returned[1]

\* ------------------------------------------------------------------------
\* StandardScraper._enhance_kentucky_player_data applied to a list of players
\* ------------------------------------------------------------------------
InitEnhance ==
    /\ pc = "enhance"
    /\ \E input \in EnhancementInputs : players = input[1] /\ bios = input[2]
    /\ html = <<>>
    /\ ctx = NoContext
    /\ returned = <<>>
    /\ ManagerInit
    /\ arg = ""

EnhancePlayers ==
    /\ pc = "enhance"
    /\ fetches' = BioFetches(players, bios)
    /\ returned' = <<_enhance_kentucky_player_data(players, bios)>>
    /\ pc' = "enhanced"
    /\ UNCHANGED <<arg, html, ctx, players, bios, teams, i, scraper, roster_url,
                   all_players, zero_player_teams, failed_teams, successful_teams,
                   raised>>

NextEnhance == EnhancePlayers

SpecEnhance == InitEnhance /\ [][NextEnhance]_vars

\* the fields the enhancement never sets
IdentityOf(player) ==
    [f \in DOMAIN player \ {"hometown", "high_school", "year"} |-> player[f]]

\* the bio page of players[k] is fetched and the fetch fails
FetchFails(k) ==
    /\ players[k].url # ""
    /\ bios[k].kind = "exception" \/ bios[k].status # 200

\* the enhancement runs its loop: the first player has a Kentucky URL
EnhancementRuns ==
    players # <<>> /\ Contains(players[1].url, "ukathletics.com")

\* C9: the enhancement returns the same players in the same order whatever the
\* bio page fetches give; a player whose fetch fails, or whose page has no info
\* list, keeps every field, and a later player whose page gives a hometown
\* still gets it
C9_EnhancementKeepsPlayers ==
    pc = "enhanced" =>
        /\ Len(returned[1]) = Len(players)
        /\ \A k \in 1..Len(players) :
              /\ IdentityOf(returned[1][k]) = IdentityOf(players[k])
              /\ FetchFails(k) => returned[1][k] = players[k]
              /\ (players[k].url # "" /\ bios[k].kind = "response"
                    /\ bios[k].status = 200 /\ bios[k].info_list = <<>>)
                    => returned[1][k] = players[k]
              /\ (EnhancementRuns /\ players[k].url # "" /\ bios[k].kind = "response"
                    /\ bios[k].status = 200 /\ bios[k].info_list # <<>>
                    /\ bios[k].info_list[1][1] = InfoItem(<<"Hometown">>, <<" Lexington, Ky. ">>))
                    => returned[1][k].hometown = "Lexington, Ky."

\* the first player's fetch raises, the second player is enriched all the same
C9_Witness ==
    /\ pc = "enhanced"
    /\ Len(players) >= 2
    /\ EnhancementRuns
    /\ bios[1].kind = "exception"
    /\ returned[1][1] = players[1]
    /\ returned[1][2].hometown = "Lexington, Ky."

\* ------------------------------------------------------------------------
\* RosterManager.scrape_teams, with the scrape_team call of each team
\* ------------------------------------------------------------------------
\* RosterManager.season
ManagerSeason == "2025"

Init ==
    /\ pc = "loop"
    /\ teams \in SeqsUpTo(TeamRows, MaxTeams)
    /\ i = 0
    /\ scraper = ""
    /\ ctx = NoContext
    /\ roster_url = ""
    /\ fetches = <<>>
    /\ html = <<>>
    /\ players = <<>>
    /\ bios = <<>>
    /\ returned = <<>>
    /\ all_players = <<>>
    /\ zero_player_teams = <<>>
    /\ failed_teams = <<>>
    /\ successful_teams = <<>>
    /\ raised = ""
    /\ arg = ""

\* the head of the loop of scrape_teams up to the first fetch of scrape_team:
\* int(team['ncaa_id']) stands before the try block, so its ValueError leaves
\* scrape_teams
ReadRow ==
    /\ pc = "loop"
    /\ i < Len(teams)
    /\ LET team == teams[i + 1]
       IN  IF ~IsInt(team.ncaa_id)
           THEN /\ raised' = "ValueError"
                /\ pc' = "raised"
                /\ UNCHANGED <<scraper, ctx, roster_url>>
           ELSE LET team_id == ParseInt(team.ncaa_id)
                IN  /\ ctx' = [team_id |-> team_id, team_name |-> team.team,
                               season |-> ManagerSeason, division |-> team.division,
                               base_url |-> team.url]
                    /\ scraper' = IF requires_javascript(team_id) THEN "js" ELSE "std"
                    /\ roster_url' = build_roster_url(team.url, ManagerSeason,
                                                     get_url_format(team_id, team.url))
                    /\ pc' = IF requires_javascript(team_id) THEN "js_render"
                             ELSE "std_get"
                    /\ UNCHANGED raised
    /\ fetches' = <<>>
    /\ html' = <<>>
    /\ players' = <<>>
    /\ returned' = <<>>
    /\ UNCHANGED <<arg, teams, i, bios, all_players, zero_player_teams, failed_teams,
                   successful_teams>>

\* "return value" of scrape_team
Return(value) ==
    /\ returned' = <<value>>
    /\ pc' = "returned"

\* StandardScraper.scrape_team: the first session.get, up to the parsing of
\* the response, the request of the season-range URL or the return
StdGet ==
    /\ pc = "std_get"
    /\ \E got \in GetOutcomes :
          /\ fetches' = Append(fetches, Fetch("roster", roster_url, got))
          /\ IF got.kind = "exception"
             THEN Return(<<>>) /\ UNCHANGED html
             ELSE IF got.status = 404
                     /\ Std_build_season_range_url(ctx.base_url, ctx.season) # roster_url
             THEN pc' = "std_alt" /\ UNCHANGED <<html, returned>>
             ELSE IF got.status # 200
             THEN Return(<<>>) /\ UNCHANGED html
             ELSE html' = got.page /\ pc' = "std_parse" /\ UNCHANGED returned
    /\ UNCHANGED <<arg, teams, i, scraper, ctx, roster_url, players, bios, all_players,
                   zero_player_teams, failed_teams, successful_teams, raised>>

\* StandardScraper.scrape_team: the session.get of the season-range URL
StdAltGet ==
    /\ pc = "std_alt"
    /\ roster_url' = Std_build_season_range_url(ctx.base_url, ctx.season)
    /\ \E got \in GetOutcomes :
          /\ fetches' = Append(fetches, Fetch("alternative", roster_url', got))
          /\ IF got.kind = "exception" \/ got.status # 200
             THEN Return(<<>>) /\ UNCHANGED html
             ELSE html' = got.page /\ pc' = "std_parse" /\ UNCHANGED returned
    /\ UNCHANGED <<arg, teams, i, scraper, ctx, players, bios, all_players,
                   zero_player_teams, failed_teams, successful_teams, raised>>

\* StandardScraper.scrape_team after _extract_players: the enhancement of the
\* Kentucky players (team_id 334) and the return
StdReturn(extracted) ==
    \E bs \in IF ctx.team_id = 334 THEN [1..Len(extracted) -> BioOutcomes] ELSE {<<>>} :
        /\ bios' = bs
        /\ fetches' = IF ctx.team_id = 334 THEN fetches \o BioFetches(extracted, bs)
                      ELSE fetches
        /\ players' = IF ctx.team_id = 334
                      THEN _enhance_kentucky_player_data(extracted, bs)
                      ELSE extracted
        /\ Return(players')

\* StandardScraper.scrape_team from the parsed page to its return
StdParse ==
    /\ pc = "std_parse"
    /\ StdReturn(_extract_players(html[1], ctx))
    /\ UNCHANGED <<arg, teams, i, scraper, ctx, roster_url, html, all_players,
                   zero_player_teams, failed_teams, successful_teams, raised>>

\* JSScraper.scrape_team: _fetch_html_with_javascript(roster_url)
JsRender ==
    /\ pc = "js_render"
    /\ \E got \in RenderOutcomes :
          /\ fetches' = Append(fetches, Fetch("roster", roster_url, got))
          /\ IF got.kind = "none"
             THEN pc' = "js_fallback" /\ UNCHANGED html
             ELSE html' = got.page /\ pc' = "js_parse"
    /\ UNCHANGED <<arg, teams, i, scraper, ctx, roster_url, players, bios, returned,
                   all_players, zero_player_teams, failed_teams, successful_teams,
                   raised>>

\* JSScraper.scrape_team: the session.get of the roster URL after a failed
\* rendering
JsFallbackGet ==
    /\ pc = "js_fallback"
    /\ \E got \in GetOutcomes :
          /\ fetches' = Append(fetches, Fetch("fallback", roster_url, got))
          /\ IF got.kind = "exception" \/ got.status # 200
             THEN Return(<<>>) /\ UNCHANGED html
             ELSE html' = got.page /\ pc' = "js_parse" /\ UNCHANGED returned
    /\ UNCHANGED <<arg, teams, i, scraper, ctx, roster_url, players, bios, all_players,
                   zero_player_teams, failed_teams, successful_teams, raised>>

\* a variant of JsAltRender that renders the season-range URL again when the
\* rendering fails
JsAltRenderRetrying ==
    /\ pc = "js_alt"
    /\ \E got \in RenderOutcomes :
          /\ fetches' = Append(fetches,
                               Fetch("alternative",
                                     Js_build_season_range_url(ctx.base_url, ctx.season),
                                     got))
          /\ IF got.kind = "none"
             THEN pc' = "js_alt" /\ UNCHANGED <<html, returned>>
             ELSE html' = got.page /\ pc' = "js_parse" /\ UNCHANGED returned
    /\ Len(fetches) < 4
    /\ UNCHANGED <<arg, teams, i, scraper, ctx, roster_url, players, bios, all_players,
                   zero_player_teams, failed_teams, successful_teams, raised>>

\* JSScraper.scrape_team: _fetch_html_with_javascript(alternative_url)
JsAltRender ==
    /\ pc = "js_alt"
    /\ \E got \in RenderOutcomes :
          /\ fetches' = Append(fetches,
                               Fetch("alternative",
                                     Js_build_season_range_url(ctx.base_url, ctx.season),
                                     got))
          /\ IF got.kind = "none"
             THEN Return(<<>>) /\ UNCHANGED html
             ELSE html' = got.page /\ pc' = "js_parse" /\ UNCHANGED returned
    /\ UNCHANGED <<arg, teams, i, scraper, ctx, roster_url, players, bios, all_players,
                   zero_player_teams, failed_teams, successful_teams, raised>>

\* a variant of JsValidate that returns the players at hand when no further
\* URL is left to try
JsValidateKeepingPartial(extracted) ==
    /\ players' = extracted
    /\ IF _validate_players(extracted) THEN Return(extracted)
       ELSE IF fetches[Len(fetches)].role # "alternative"
               /\ Js_build_season_range_url(ctx.base_url, ctx.season) # roster_url
       THEN pc' = "js_alt" /\ UNCHANGED returned
       ELSE Return(extracted)

\* a variant of JsValidate that renders the season-range URL before it looks at
\* the players of the roster URL
JsValidateSeasonRangeFirst(extracted) ==
    /\ players' = extracted
    /\ IF fetches[Len(fetches)].role # "alternative"
          /\ Js_build_season_range_url(ctx.base_url, ctx.season) # roster_url
       THEN pc' = "js_alt" /\ UNCHANGED returned
       ELSE IF _validate_players(extracted) THEN Return(extracted)
       ELSE Return(<<>>)

\* JSScraper.scrape_team after _extract_players: the players of the roster URL
\* are returned when valid; otherwise the season-range URL is rendered, when
\* it differs; the players of the season-range URL are returned when valid,
\* and otherwise nothing is
JsValidate(extracted) ==
    /\ players' = extracted
    /\ IF _validate_players(extracted) THEN Return(extracted)
       ELSE IF fetches[Len(fetches)].role # "alternative"
               /\ Js_build_season_range_url(ctx.base_url, ctx.season) # roster_url
       THEN pc' = "js_alt" /\ UNCHANGED returned
       ELSE Return(<<>>)

\* JSScraper.scrape_team from a rendered or fetched page to the validation of
\* its players
JsParse ==
    /\ pc = "js_parse"
    /\ JsValidate(_extract_players(html[1], ctx))
    /\ UNCHANGED <<arg, teams, i, scraper, ctx, roster_url, fetches, html, bios,
                   all_players, zero_player_teams, failed_teams, successful_teams,
                   raised>>

\* a variant of RecordTeam that lacks the else: a team without players is
\* filed in zero_player_teams and in successful_teams
RecordTeamInBothLists ==
    /\ pc = "returned"
    /\ zero_player_teams' =
           IF Len(returned[1]) = 0
           THEN Append(zero_player_teams,
                       [team |-> ctx.team_name, ncaa_id |-> ctx.team_id,
                        division |-> ctx.division, url |-> ctx.base_url])
           ELSE zero_player_teams
    /\ all_players' = all_players \o returned[1]
    /\ successful_teams' =
           Append(successful_teams,
                  [team |-> ctx.team_name, ncaa_id |-> ctx.team_id,
                   division |-> ctx.division, player_count |-> Len(returned[1])])
    /\ i' = i + 1
    /\ pc' = "loop"
    /\ UNCHANGED <<arg, teams, scraper, ctx, roster_url, fetches, html, players, bios,
                   returned, failed_teams, raised>>

\* a variant of RecordTeam that files a team without players as successful
RecordTeamAlwaysSuccessful ==
    /\ pc = "returned"
    /\ all_players' = all_players \o returned[1]
    /\ successful_teams' =
           Append(successful_teams,
                  [team |-> ctx.team_name, ncaa_id |-> ctx.team_id,
                   division |-> ctx.division, player_count |-> Len(returned[1])])
    /\ i' = i + 1
    /\ pc' = "loop"
    /\ UNCHANGED <<arg, teams, scraper, ctx, roster_url, fetches, html, players, bios,
                   returned, zero_player_teams, failed_teams, raised>>

\* the rest of the loop body of scrape_teams after scrape_team returned.  The
\* except branch that fills failed_teams is not reached: scrape_team catches
\* every Exception itself.
RecordTeam ==
    /\ pc = "returned"
    /\ IF Len(returned[1]) = 0
       THEN /\ zero_player_teams' =
                   Append(zero_player_teams,
                          [team |-> ctx.team_name, ncaa_id |-> ctx.team_id,
                           division |-> ctx.division, url |-> ctx.base_url])
            /\ UNCHANGED <<all_players, successful_teams>>
       ELSE /\ all_players' = all_players \o returned[1]
            /\ successful_teams' =
                   Append(successful_teams,
                          [team |-> ctx.team_name, ncaa_id |-> ctx.team_id,
                           division |-> ctx.division,
                           player_count |-> Len(returned[1])])
            /\ UNCHANGED zero_player_teams
    /\ i' = i + 1
    /\ pc' = "loop"
    /\ UNCHANGED <<arg, teams, scraper, ctx, roster_url, fetches, html, players, bios,
                   returned, failed_teams, raised>>

\* the end of scrape_teams: return all_players
Finish ==
    /\ pc = "loop"
    /\ i = Len(teams)
    /\ returned' = <<all_players>>
    /\ pc' = "done"
    /\ UNCHANGED <<arg, teams, i, scraper, ctx, roster_url, fetches, html, players, bios,
                   all_players, zero_player_teams, failed_teams, successful_teams,
                   raised>>

Next ==
    \/ ReadRow
    \/ StdGet
    \/ StdAltGet
    \/ StdParse
    \/ JsRender
    \/ JsFallbackGet
    \/ JsAltRender
    \/ JsParse
    \/ RecordTeam
    \/ Finish

Spec == Init /\ [][Next]_vars

\* the calls of RosterManager.scrape_teams together with those of
\* _enhance_kentucky_player_data
InitCalls == Init \/ InitEnhance

NextCalls == Next \/ NextEnhance

SpecCalls == InitCalls /\ [][NextCalls]_vars

\* ------------------------------------------------------------------------
\* Claims about scrape_team and RosterManager.scrape_teams
\* ------------------------------------------------------------------------

\* C2: on the StandardScraper path scrape_team returns extracted records only
\* if they pass the coverage policy of _validate_players
C2_StandardReturnsOnlyValidated ==
    (pc = "returned" /\ scraper = "std" /\ returned[1] # <<>>)
        => _validate_players(returned[1])

\* the attempts of the season-range URL in the current scrape_team call
AlternativeAttempts == {k \in 1..Len(fetches) : fetches[k].role = "alternative"}

\* the positions of scrape_team at which a URL is requested next
FetchPositions == {"std_get", "std_alt", "js_render", "js_fallback", "js_alt"}

\* C4: in one scrape_team call the season-range URL is attempted at most once,
\* it is the last URL the call attempts, and after it the call only parses
\* and returns
C4_AlternateUrlAtMostOnce ==
    /\ Cardinality(AlternativeAttempts) <= 1
    /\ \A k \in AlternativeAttempts : k = Len(fetches) /\ pc \notin FetchPositions

\* a scrape_team call has returned records it got from the season-range URL
C4_Witness ==
    /\ pc = "returned"
    /\ AlternativeAttempts # {}
    /\ returned[1] # <<>>

\* the first fetch of the call ended in a request exception or a non-200 status
FirstFetchFailed ==
    /\ fetches # <<>>
    /\ \/ fetches[1].outcome.kind = "exception"
       \/ fetches[1].outcome.kind = "response" /\ fetches[1].outcome.status # 200

\* C5: when the first fetch ends in an exception or any non-200 status, an
\* empty result is reported only after exactly one further attempt, which
\* requests the season-range URL
C5_TransientErrorRetriedOnce ==
    (pc = "returned" /\ returned[1] = <<>> /\ FirstFetchFailed)
        => (Len(fetches) = 2 /\ fetches[2].role = "alternative")

\* C6: no exception leaves scrape_teams, and when it returns every team of
\* the list has been attempted and recorded
C6_TeamExceptionContained ==
    /\ raised = ""
    /\ pc = "done" =>
           /\ i = Len(teams)
           /\ Len(successful_teams) + Len(zero_player_teams) + Len(failed_teams)
                  = Len(teams)

\* no template marker matches the document: no roster list items, no
\* recognizable table, no cards or item blocks
NoMarker(doc) ==
    /\ doc.roster_players = <<>>
    /\ doc.list_items = <<>>
    /\ doc.cards = <<>>
    /\ doc.wmt_items = <<>>
    /\ doc.wp_items = <<>>
    /\ doc.mod_roster \in {<<>>, <<0>>}
    /\ PrestoCells(doc) = <<>>
    /\ \A k \in 1..Len(doc.tables) :
          /\ ~HasDataFieldHeader(doc.tables[k])
          /\ ~StartsWith(doc.tables[k].id, "players-table")
          /\ ~IsRosterClassTable(doc.tables[k])
          /\ ~HasSidearmRow(doc.tables[k])
          /\ ~HasRosterHeaders(doc.tables[k])

\* the pages the current scrape_team call has received
FetchedPages ==
    {fetches[k].outcome.page[1] :
        k \in {n \in 1..Len(fetches) : fetches[n].outcome.page # <<>>}}

\* every page of the call was a page without a template marker
MarkerlessCall == FetchedPages # {} /\ \A page \in FetchedPages : NoMarker(page)

\* the players of a page without a marker: _extract_players runs the generic
\* table extractor, and it finds nothing
C7_FallThrough ==
    (pc \in {"returned", "js_alt"} /\ html # <<>> /\ NoMarker(html[1]))
        => /\ Dispatch(html[1]) = "table"
           /\ _extract_players_from_table(html[1], ctx) = <<>>
           /\ players = <<>>

\* after a call that saw only such pages scrape_team has returned the empty
\* list, and the step of scrape_teams that follows files the team in
\* zero_player_teams
C7_Recorded ==
    (pc = "returned" /\ MarkerlessCall /\ pc' = "loop")
        => /\ returned[1] = <<>>
           /\ raised' = ""
           /\ zero_player_teams' =
                  Append(zero_player_teams,
                         [team |-> ctx.team_name, ncaa_id |-> ctx.team_id,
                          division |-> ctx.division, url |-> ctx.base_url])

\* C7: for a document in which no template marker matches, _extract_players
\* falls through to the generic table extractor, which returns the empty
\* list; scrape_team returns the empty list and scrape_teams records the team
\* in zero_player_teams
C7_MarkerlessGivesZeroPlayers == [](C7_FallThrough) /\ [][C7_Recorded]_vars

\* a team whose pages had no marker has been filed in zero_player_teams
C7_Witness ==
    /\ pc = "loop"
    /\ MarkerlessCall
    /\ zero_player_teams # <<>>
    /\ zero_player_teams[Len(zero_player_teams)].ncaa_id = ctx.team_id

\* the text the dominant extraction reads the name of an entry from: the text
\* of the heading's link when it has one, the heading's text otherwise
NameText(item) ==
    IF FirstHref(item.links) # <<>> THEN FirstHref(item.links)[1].text ELSE item.heading[1]

\* every li.sidearm-roster-player entry of the document has a heading with text
HeadingsWithText(doc) ==
    /\ doc.roster_players # <<>>
    /\ \A k \in 1..Len(doc.roster_players) :
          /\ ~doc.roster_players[k].fault
          /\ doc.roster_players[k].heading # <<>>
          /\ Strip(doc.roster_players[k].heading[1]) # ""

\* ... and the text is a name: something other than noise phrases and field
\* labels, which clean_text removes
HeadingsWithNames(doc) ==
    /\ HeadingsWithText(doc)
    /\ \A k \in 1..Len(doc.roster_players) : clean_text(NameText(doc.roster_players[k])) # ""

\* every entry carries a jersey number, a position and an academic year
EntriesComplete(doc) ==
    \A k \in 1..Len(doc.roster_players) :
        /\ doc.roster_players[k].jersey # <<>>
        /\ doc.roster_players[k].position # <<>>
        /\ doc.roster_players[k].year # <<>>

\* the records of the page at hand are one per entry in document order, each
\* with a name
OneRecordPerEntry ==
    /\ Len(players) = Len(html[1].roster_players)
    /\ \A k \in 1..Len(players) :
          /\ players[k].name # ""
          /\ players[k].name = clean_text(NameText(html[1].roster_players[k]))
          /\ players[k].jersey = CleanOpt(html[1].roster_players[k].jersey)

\* JSScraper.scrape_team holds the page of the roster URL, every entry of which
\* carries jersey, position and academic year
FirstAttemptComplete ==
    /\ scraper = "js"
    /\ AlternativeAttempts = {}
    /\ EntriesComplete(html[1])

\* _validate_players passes on the first attempt: the call returns the records
\* of the roster URL's page and never comes to the season-range URL
AcceptedAtOnce ==
    /\ pc = "returned"
    /\ _validate_players(players)
    /\ returned[1] = players

C27_KentuckyProfilesFetched ==
    (/\ pc = "returned"
     /\ ctx.team_id = 334
     /\ returned[1] # <<>>
     /\ Contains(returned[1][1].url, "ukathletics.com")) =>
        /\ Len(bios) = Len(players)
        /\ returned[1] = _enhance_kentucky_player_data(players, bios)

\* C28: JSScraper.scrape_team returns the empty list or the players of the
\* page it parsed last, and these only when they pass _validate_players; an
\* extraction that fails the validation is never returned
C28_JsReturnsValidatedOrEmpty ==
    (pc = "returned" /\ scraper = "js" /\ returned[1] # <<>>) =>
        /\ returned[1] = players
        /\ _validate_players(returned[1])
        /\ fetches[Len(fetches)].outcome.page = html

\* a JSScraper call has returned the empty list although the page of the
\* roster URL gave players: they failed the validation and the season-range
\* URL is the roster URL, so that no other page was rendered
C28_Witness ==
    /\ pc = "returned"
    /\ scraper = "js"
    /\ returned[1] = <<>>
    /\ players # <<>>
    /\ AlternativeAttempts = {}
    /\ Js_build_season_range_url(ctx.base_url, ctx.season) = roster_url

\* the number of entries of a bookkeeping list for the team ncaa_id
TimesFiled(list, ncaa_id) ==
    Cardinality({k \in 1..Len(list) : list[k].ncaa_id = ncaa_id})

\* the number of rows among the first n of teams that are the team ncaa_id
TimesAttempted(n, ncaa_id) ==
    Cardinality({k \in 1..n :
                    IF IsInt(teams[k].ncaa_id) THEN ParseInt(teams[k].ncaa_id) = ncaa_id
                    ELSE FALSE})

\* the sum of player_count over the first n entries of successful_teams
RECURSIVE PlayersCounted(_)
PlayersCounted(n) ==
    IF n = 0 THEN 0 ELSE PlayersCounted(n - 1) + successful_teams[n].player_count

\* the ncaa_ids of the rows of TeamRows that hold a number
RowIds == {ParseInt(row.ncaa_id) : row \in {r \in TeamRows : IsInt(r.ncaa_id)}}

\* the teams attempted so far are the first i rows; each is in one of the three
\* lists, once for each time it was attempted; the entries of successful_teams
\* count at least one player each, and all_players is made of their players,
\* list after list
C30_Bookkeeping ==
    /\ Len(successful_teams) + Len(zero_player_teams) + Len(failed_teams) = i
    /\ \A id \in RowIds :
          TimesFiled(successful_teams, id) + TimesFiled(zero_player_teams, id)
            + TimesFiled(failed_teams, id) = TimesAttempted(i, id)
    /\ PlayersCounted(Len(successful_teams)) = Len(all_players)
    /\ \A k \in 1..Len(successful_teams) :
          /\ successful_teams[k].player_count >= 1
          /\ \A n \in 1..successful_teams[k].player_count :
                all_players[PlayersCounted(k - 1) + n].team_id = successful_teams[k].ncaa_id
    /\ pc = "done" => i = Len(teams) /\ returned = <<all_players>>

\* the step that follows a scrape: the team is appended to successful_teams,
\* with the number of its players, and these to all_players exactly when the
\* scrape returned a player; otherwise the team is appended to
\* zero_player_teams and all_players stays
C30_Recorded ==
    (pc = "returned" /\ pc' # "returned") =>
        IF returned[1] # <<>>
        THEN /\ Len(successful_teams') = Len(successful_teams) + 1
             /\ successful_teams'[Len(successful_teams')].ncaa_id = ctx.team_id
             /\ successful_teams'[Len(successful_teams')].player_count = Len(returned[1])
             /\ all_players' = all_players \o returned[1]
             /\ UNCHANGED <<zero_player_teams, failed_teams>>
        ELSE /\ Len(zero_player_teams') + Len(failed_teams')
                    = Len(zero_player_teams) + Len(failed_teams) + 1
             /\ UNCHANGED <<all_players, successful_teams>>

\* C30: when scrape_teams returns, each attempted team is in exactly one of
\* successful_teams, zero_player_teams and failed_teams: in successful_teams
\* exactly when its scrape returned a player, with that number as
\* player_count; the list returned is the concatenation, in team order, of
\* the lists of the successful teams
C30_OneListPerTeam == [](C30_Bookkeeping) /\ [][C30_Recorded]_vars

\* scrape_teams has returned after one team with players and one without
C30_Witness ==
    /\ pc = "done"
    /\ Len(successful_teams) = 1
    /\ Len(zero_player_teams) = 1
    /\ returned[1] # <<>>

\* the positions inside a scrape_team call
CallPositions ==
    {"std_get", "std_alt", "std_parse", "js_render", "js_fallback", "js_alt", "js_parse",
     "returned"}

\* the URLs scrape_team requests for the team at hand
UrlsOfTeam ==
    {build_roster_url(ctx.base_url, ctx.season, get_url_format(ctx.team_id, ctx.base_url)),
     Std_build_season_range_url(ctx.base_url, ctx.season),
     Js_build_season_range_url(ctx.base_url, ctx.season)}

\* while a scrape_team call runs it is the call for row i + 1, the i rows
\* before it have been scraped and recorded, and every request made since the
\* call began is a request for this team
C29_OneTeamAtATime ==
    pc \in CallPositions =>
        /\ i < Len(teams)
        /\ ctx.team_name = teams[i + 1].team
        /\ ctx.base_url = teams[i + 1].url
        /\ Len(successful_teams) + Len(zero_player_teams) + Len(failed_teams) = i
        /\ \A k \in 1..Len(fetches) :
              fetches[k].role = "bio" \/ fetches[k].url \in UrlsOfTeam

\* the players of the enhancement that have a url, by their place in the list
WithUrl == {k \in 1..Len(players) : players[k].url # ""}

\* the requests of the enhancement are those of the players with a url, one
\* each, in the order of the players
C29_InPlayerOrder ==
    pc = "enhanced" =>
        IF EnhancementRuns
        THEN /\ Len(fetches) = Cardinality(WithUrl)
             /\ \A n \in 1..Len(fetches) :
                   \E k \in WithUrl :
                       /\ Cardinality({j \in WithUrl : j < k}) = n - 1
                       /\ fetches[n] = Fetch("bio", players[k].url, bios[k])
        ELSE fetches = <<>>

\* a step changes the requests only by starting the next call, at the head of
\* the loop, or by adding the requests of the step to those made before: one
\* page of the team, or the bio pages; the next team is taken up only at the
\* head of the loop, and a team is counted only when its call has returned
C29_Step ==
    /\ fetches' # fetches =>
           \/ pc = "loop" /\ fetches' = <<>>
           \/ /\ pc \in FetchPositions
              /\ Len(fetches') = Len(fetches) + 1
              /\ SubSeq(fetches', 1, Len(fetches)) = fetches
           \/ /\ pc \in {"std_parse", "enhance"}
              /\ Len(fetches') > Len(fetches)
              /\ SubSeq(fetches', 1, Len(fetches)) = fetches
              /\ \A k \in Len(fetches) + 1..Len(fetches') : fetches'[k].role = "bio"
    /\ ctx' # ctx => pc = "loop"
    /\ i' # i => pc = "returned" /\ i' = i + 1

\* C29: processing is sequential: in scrape_teams the requests, the
\* extraction, the validation and the season-range attempt of a team are over
\* before the first request of the next team, and the bio pages of the
\* enhancement are requested one after the other in player order
C29_Sequential ==
    [](C29_OneTeamAtATime /\ C29_InPlayerOrder) /\ [][C29_Step]_vars

\* the enhancement has requested the bio pages of two players
C29_Witness ==
    /\ pc = "enhanced"
    /\ Len(fetches) = 2
    /\ fetches[1].url # fetches[2].url

\* ------------------------------------------------------------------------
\* FieldExtractors applied to a text
\* ------------------------------------------------------------------------

\* texts of roster cells: a label or the head of one, a value, a trailing phrase
CellTexts ==
    {prefix \o value \o suffix :
        prefix \in {"", "Class: ", "pos.: ", "Previous Major: College: ", "Full Class: "},
        value \in {"Joe Diaz", "Bio", " Reno,  NV "},
        suffix \in {"", " Full Bio", " Instagram @jd", "\nOpens in a new window"}}

JerseyTexts ==
    {"Jersey Number 7", "Jersey Number: 123", "#7", "#10 Joe", "#123", "No. 7", "No.: 12",
     "No. 100", "7 Joe Diaz", "123 Joe", "7 joe", "No. 7 #9", "9 Joe Jersey Number 7"}

HeightTexts ==
    {"6'2\"", "6-2", "1.88m", "6'2\" / 1.88m", "6' 2''", "6-2 and 6'1\"", "1.88m 6-2",
     "Height: 6 ft, 170", "tall", "Ht. 5'11\" 160"}

PositionTexts ==
    {"GK", "gk", "D", "M", "F", "mf", "DF", "FW", "Def", "MID", "for", "D/M", "Forward/M",
     "Goalkeeper", "Goalie", "Defender", "Defence", "Defense", "Midfielder", "Midfield",
     "Forward", "striker", "Coach", "Pos.: Mid"}

YearTexts ==
    {kv[1] : kv \in year_map}
        \cup {" Sr. ", "R-So.\n", "Grad2", " Grad2 ", "fr", "Senior", "5th", " "}

HometownTexts ==
    {"Reno, NV", "Austin, TX / Duke University", "Reno, NV / Reno HS",
     "Reno / Reno HS / Duke", "Reno / Duke College / UNLV", "Reno / Tech High /", "Reno /",
     " / State", "Reno  /\nReno HS Twitter", "Reno Instagram / Duke", "A / B / C / D"}

FieldTexts ==
    {""} \cup CellTexts \cup JerseyTexts \cup HeightTexts \cup PositionTexts
         \cup YearTexts \cup HometownTexts

InitFields ==
    /\ pc = "field"
    /\ arg \in FieldTexts
    /\ html = <<>>
    /\ ctx = NoContext
    /\ players = <<>>
    /\ bios = <<>>
    /\ returned = <<>>
    /\ ManagerInit

CleanText ==
    /\ pc = "field"
    /\ returned' = <<clean_text(arg)>>
    /\ pc' = "clean_text"
    /\ UNCHANGED <<arg, html, ctx, players, bios, managerVars>>

ExtractJerseyNumber ==
    /\ pc = "field"
    /\ returned' = <<extract_jersey_number(arg)>>
    /\ pc' = "extract_jersey_number"
    /\ UNCHANGED <<arg, html, ctx, players, bios, managerVars>>

ExtractHeight ==
    /\ pc = "field"
    /\ returned' = <<extract_height(arg)>>
    /\ pc' = "extract_height"
    /\ UNCHANGED <<arg, html, ctx, players, bios, managerVars>>

ExtractPosition ==
    /\ pc = "field"
    /\ returned' = <<extract_position(arg)>>
    /\ pc' = "extract_position"
    /\ UNCHANGED <<arg, html, ctx, players, bios, managerVars>>

NormalizeAcademicYear ==
    /\ pc = "field"
    /\ returned' = <<normalize_academic_year(arg)>>
    /\ pc' = "normalize_academic_year"
    /\ UNCHANGED <<arg, html, ctx, players, bios, managerVars>>

ParseHometownSchool ==
    /\ pc = "field"
    /\ returned' = <<parse_hometown_school(arg)>>
    /\ pc' = "parse_hometown_school"
    /\ UNCHANGED <<arg, html, ctx, players, bios, managerVars>>

NextFields ==
    \/ CleanText
    \/ ExtractJerseyNumber
    \/ ExtractHeight
    \/ ExtractPosition
    \/ NormalizeAcademicYear
    \/ ParseHometownSchool

SpecFields == InitFields /\ [][NextFields]_vars

\* ------------------------------------------------------------------------
\* Claims about FieldExtractors
\* ------------------------------------------------------------------------
\* C11: clean_text is idempotent: cleaning its result again changes nothing
C11_CleanTextIdempotent ==
    pc = "clean_text" => clean_text(returned[1]) = returned[1]

\* the noise phrases and the labels clean_text removes
NoisePhrases == {"Full Bio", "Instagram", "Twitter", "Opens in a new window"}

FieldLabels ==
    {"Class:", "Hometown:", "High school:", "Previous College:", "Previous School:",
     "Ht:", "Ht.:", "Pos:", "Pos.:", "Major:", "No:", "No.:"}

\* the texts that differ from s in nothing but the letter case of a phrase
CaseVariants(s, phrases) ==
    {Replace(s, p, Upper(p)) : p \in phrases} \cup {Replace(s, p, Lower(p)) : p \in phrases}

\* C12: clean_text removes the noise phrases and the labels whatever their
\* letter case: a text that differs only in the case of a noise phrase or
\* of a label is cleaned to the same result
C12_RemovalIgnoresCase ==
    pc = "clean_text" =>
        \A v \in CaseVariants(arg, NoisePhrases \cup FieldLabels) :
            clean_text(v) = returned[1]

\* C14: extract_jersey_number returns the empty string or one or two digits
C14_JerseyOneOrTwoDigits ==
    pc = "extract_jersey_number" =>
        returned[1] = "" \/ (Len(returned[1]) \in {1, 2} /\ IsInt(returned[1]))

\* the text parse_hometown_school splits: without the social-media noise, with
\* single spaces
HometownText == Strip(ReSub(WhitespaceRun, " ", ReSub(HometownNoisePattern, "", arg, FALSE), FALSE))

\* its '/'-delimited segments, trimmed
HometownSegments == [k \in 1..Len(Split(HometownText, "/")) |-> Strip(Split(HometownText, "/")[k])]

LooksLikeCollege(segment) ==
    \E indicator \in {"University", "College", "State", "Tech", "Institute"} :
        Contains(segment, indicator)

\* C15: parse_hometown_school makes the first segment the hometown; of two
\* segments the second is the previous school when it holds an institution
\* indicator and the high school otherwise, the other field staying empty; a
\* third segment is always the previous school; text without '/' is the
\* hometown, with both school fields empty
C15_HometownSchoolClassified ==
    pc = "parse_hometown_school" =>
        LET segments == HometownSegments
            result == returned[1]
        IN  IF arg = ""
            THEN result = [hometown |-> "", high_school |-> "", previous_school |-> ""]
            ELSE IF Len(segments) = 1
            THEN result = [hometown |-> HometownText, high_school |-> "",
                           previous_school |-> ""]
            ELSE /\ result.hometown = segments[1]
                 /\ result.high_school =
                        IF LooksLikeCollege(segments[2]) THEN "" ELSE segments[2]
                 /\ result.previous_school =
                        IF Len(segments) > 2 THEN segments[3]
                        ELSE IF LooksLikeCollege(segments[2]) THEN segments[2] ELSE ""

\* a college in the second segment gives way to the third segment
C15_Witness ==
    /\ pc = "parse_hometown_school"
    /\ Len(HometownSegments) = 3
    /\ LooksLikeCollege(HometownSegments[2])
    /\ returned[1].previous_school = HometownSegments[3]
    /\ returned[1].previous_school # ""

\* the class names with their abbreviations
ClassAbbreviations ==
    {<<"Fr", "Freshman">>, <<"So", "Sophomore">>, <<"Jr", "Junior">>, <<"Sr", "Senior">>,
     <<"Gr", "Graduate">>}

\* the tokens with a full class name: the abbreviation, with a full stop and in
\* capitals, the redshirt variants, the ordinals
ClassTokens ==
    UNION {{<<c[1], c[2]>>, <<c[1] \o ".", c[2]>>, <<Upper(c[1]), c[2]>>} :
              c \in ClassAbbreviations}
    \cup UNION {{<<"R-" \o c[1], "Redshirt " \o c[2]>>,
                 <<"R-" \o c[1] \o ".", "Redshirt " \o c[2]>>} :
                   c \in ClassAbbreviations \ {<<"Gr", "Graduate">>}}
    \cup {<<"1st", "Freshman">>, <<"First", "Freshman">>, <<"2nd", "Sophomore">>,
          <<"Second", "Sophomore">>, <<"3rd", "Junior">>, <<"Third", "Junior">>,
          <<"4th", "Senior">>, <<"Fourth", "Senior">>}

\* C16: normalize_academic_year gives the full class name of a token of its
\* dictionary, surrounding whitespace aside, the empty string for empty input,
\* and every other input exactly as given
C16_YearMappedOrVerbatim ==
    pc = "normalize_academic_year" =>
        IF arg = "" THEN returned[1] = ""
        ELSE IF \E token \in ClassTokens : token[1] = Strip(arg)
        THEN \E token \in ClassTokens : token[1] = Strip(arg) /\ returned[1] = token[2]
        ELSE returned[1] = arg

\* an unrecognized token between spaces comes back with its spaces
C16_Witness ==
    /\ pc = "normalize_academic_year"
    /\ Strip(arg) # arg
    /\ Strip(arg) = "Grad2"
    /\ returned[1] = arg

\* the position codes with their abbreviations and their full words, in capitals
PositionCodes ==
    {[code |-> "GK", abbreviations |-> {"GK"}, words |-> {"GOALKEEPER", "GOALIE"}],
     [code |-> "D", abbreviations |-> {"D", "DF", "DEF"},
      words |-> {"DEFENDER", "DEFENCE", "DEFENSE"}],
     [code |-> "M", abbreviations |-> {"M", "MF", "MID"},
      words |-> {"MIDFIELDER", "MIDFIELD"}],
     [code |-> "F", abbreviations |-> {"F", "FW", "FOR"}, words |-> {"FORWARD", "STRIKER"}]}

\* the whole words of a text, in capitals, each with the place of its first letter
WholeWords(text) ==
    {<<a, Upper(SubSeq(text, a, b))>> :
        <<a, b>> \in {ab \in (1..Len(text)) \X (1..Len(text)) :
            /\ ab[1] <= ab[2]
            /\ \A k \in ab[1]..ab[2] : Ch(text, k) \in WordChars
            /\ ab[1] = 1 \/ Ch(text, ab[1] - 1) \notin WordChars
            /\ ab[2] = Len(text) \/ Ch(text, ab[2] + 1) \notin WordChars}}

\* the whole words of the text that are position abbreviations
AbbreviationsIn(text) ==
    {w \in WholeWords(text) : \E p \in PositionCodes : w[2] \in p.abbreviations}

\* the codes that have a full word somewhere in the text
CodesNamedIn(text) ==
    {p.code : p \in {q \in PositionCodes : \E w \in q.words : Contains(Upper(text), w)}}

\* C17: extract_position returns GK, D, M, F or the empty string; the first
\* whole-word abbreviation decides, in any letter case; without one the code of
\* a full word in the text is returned, and the empty string when there is none
C17_PositionCode ==
    pc = "extract_position" =>
        /\ returned[1] \in {"GK", "D", "M", "F", ""}
        /\ IF AbbreviationsIn(arg) # {}
           THEN \E w \in AbbreviationsIn(arg) :
                    /\ \A v \in AbbreviationsIn(arg) : w[1] <= v[1]
                    /\ \E p \in PositionCodes :
                           w[2] \in p.abbreviations /\ returned[1] = p.code
           ELSE IF CodesNamedIn(arg) = {} THEN returned[1] = ""
           ELSE returned[1] \in CodesNamedIn(arg)

\* an abbreviation wins over the full word of another position before it
C17_Witness ==
    /\ pc = "extract_position"
    /\ AbbreviationsIn(arg) # {}
    /\ CodesNamedIn(arg) # {}
    /\ returned[1] \notin CodesNamedIn(arg)
    /\ returned[1] # ""

\* the leftmost height of a kind in the text: 1 imperial with its metric suffix,
\* 2 imperial, 3 hyphenated, 4 metric
HeightFound(kind) == ReSearch(HeightPatterns[kind], arg, FALSE)

\* C18: extract_height returns the empty string for empty input and otherwise
\* the leftmost imperial height with its metric suffix, without one the
\* leftmost hyphenated height, without one the leftmost metric height, as it
\* is written: the result is a part of the input
C18_HeightVerbatim ==
    pc = "extract_height" =>
        /\ arg = "" => returned[1] = ""
        /\ Contains(arg, returned[1])
        /\ \A kind \in 1..4 :
               /\ HeightFound(kind).found
               /\ \A earlier \in 1..(kind - 1) : ~HeightFound(earlier).found
               => returned[1] = Group1(arg, HeightFound(kind))
        /\ arg \in {"6'2\"", "6-2", "1.88m", "6'2\" / 1.88m"} => returned[1] = arg

\* an imperial height behind a hyphenated one is the one returned
C18_Witness ==
    /\ pc = "extract_height"
    /\ HeightFound(1).found
    /\ HeightFound(3).found
    /\ HeightFound(3).start < HeightFound(1).start
    /\ returned[1] = Group1(arg, HeightFound(1))

\* ------------------------------------------------------------------------
\* The roster URL of a team: get_url_format, then build_roster_url
\* ------------------------------------------------------------------------

\* team ids with an entry in TEAM_CONFIGS, one of each url_format, and without
TeamIds == {14, 74, 128, 147, 334, 746, 588199, 30135}

TeamUrls ==
    {"", "https://goheels.com/sports/mens-soccer",
     "https://www.aicyellowjackets.com/sports/msoc/index",
     "https://lcwarriors.com/sports/msoc/index/",
     "https://rollinssports.com/sports/msoc", "https://gowasps.com/sports/msoc/",
     "https://athletics.case.edu/Sports/msoc", "https://tusculumpioneers.com/sports/m-soccer",
     "https://ukathletics.com/sports/soccer/"}

Seasons == {"2025", "2024-25"}

InitUrl ==
    /\ pc = "team"
    /\ arg \in [team_id : TeamIds, team_url : TeamUrls, season : Seasons]
    /\ html = <<>>
    /\ ctx = NoContext
    /\ players = <<>>
    /\ bios = <<>>
    /\ returned = <<>>
    /\ ManagerInit

\* url_format = TeamConfig.get_url_format(team_id, base_url)
GetUrlFormat ==
    /\ pc = "team"
    /\ returned' = <<get_url_format(arg.team_id, arg.team_url)>>
    /\ pc' = "url_format"
    /\ UNCHANGED <<arg, teams, i, scraper, ctx, roster_url, fetches, html, players, bios,
                   all_players, zero_player_teams, failed_teams, successful_teams, raised>>

\* roster_url = URLBuilder.build_roster_url(base_url, season, url_format)
BuildRosterUrl ==
    /\ pc = "url_format"
    /\ roster_url' = build_roster_url(arg.team_url, arg.season, returned[1])
    /\ pc' = "roster_url"
    /\ UNCHANGED <<arg, teams, i, scraper, ctx, fetches, html, players, bios, returned,
                   all_players, zero_player_teams, failed_teams, successful_teams, raised>>

\* scraper_type = TeamConfig.get_scraper_type(team_id)
GetScraperType ==
    /\ pc = "team"
    /\ IF get_scraper_type(arg.team_id).raised # ""
       THEN /\ raised' = get_scraper_type(arg.team_id).raised
            /\ pc' = "raised"
            /\ UNCHANGED returned
       ELSE /\ returned' = <<get_scraper_type(arg.team_id).value>>
            /\ pc' = "scraper_type"
            /\ UNCHANGED raised
    /\ UNCHANGED <<arg, teams, i, scraper, ctx, roster_url, fetches, html, players, bios,
                   all_players, zero_player_teams, failed_teams, successful_teams>>

NextUrl == GetScraperType \/ GetUrlFormat \/ BuildRosterUrl

SpecUrl == InitUrl /\ [][NextUrl]_vars

\* the URL without its trailing slashes
BaseOf(url) == RStripCh(url, "/")

\* the format the URL of an unconfigured team stands for
FormatOf(url) ==
    IF Contains(url, "/sports/msoc/index") \/ Contains(url, "/Sports/msoc") THEN "msoc_index"
    ELSE IF Contains(url, "/sports/msoc") THEN "msoc_plain"
    ELSE "default"

\* C20: get_url_format returns the configured url_format of a configured team,
\* whatever its URL, and the format the URL stands for otherwise; for these
\* formats build_roster_url gives <base>/roster/<season>, the /index segment
\* of an msoc_index URL being replaced
C20_UrlFormatAndRosterUrl ==
    /\ pc \in {"url_format", "roster_url"} =>
           returned[1] = IF arg.team_id \in DOMAIN ConfigFormat
                         THEN ConfigFormat[arg.team_id]
                         ELSE FormatOf(arg.team_url)
    /\ pc = "roster_url" /\ arg.team_id \notin DOMAIN ConfigFormat =>
           roster_url =
               IF FormatOf(arg.team_url) = "msoc_index" /\ EndsWith(BaseOf(arg.team_url), "/index")
               THEN SubSeq(BaseOf(arg.team_url), 1, Len(BaseOf(arg.team_url)) - Len("/index"))
                        \o "/roster/" \o arg.season
               ELSE BaseOf(arg.team_url) \o "/roster/" \o arg.season

\* the roster URL of American Int'l, an unconfigured team with an index URL
C20_Witness ==
    /\ pc = "roster_url"
    /\ arg.team_id = 588199
    /\ arg.team_url = "https://www.aicyellowjackets.com/sports/msoc/index"
    /\ returned[1] = "msoc_index"
    /\ roster_url = "https://www.aicyellowjackets.com/sports/msoc/roster/2025"

\* C21: get_scraper_type returns 'standard' or 'table' for every team id and
\* raises nothing, and returns 'standard' for a team id of no special list,
\* such as 14
C21_ScraperTypeWithoutRaising ==
    /\ raised = ""
    /\ pc = "scraper_type" =>
           /\ returned[1] \in {"standard", "table"}
           /\ arg.team_id = 14 => returned[1] = "standard"

====
